---------------------------- MODULE Spec2Model ----------------------------
(***************************************************************************)
(* Bridge-Attendance worker: the D1 store (events, students, attendance,   *)
(* mailing_list, ocr_jobs), the R2 bucket, and the request handlers of     *)
(* confirm.ts, attendance.ts, scan.ts and photos.ts.  A handler is a       *)
(* sequence of steps, one per awaited store statement: requests of         *)
(* different workers interleave between awaits.                            *)
(*                                                                         *)
(* JavaScript strings that the code trims, lower-cases or compares are     *)
(* sequences of one-character strings; a JSON object is a record and a     *)
(* missing field is a field outside its DOMAIN; a nullable string is the   *)
(* string or NULL, a nullable row is a set with at most one element.       *)
(***************************************************************************)
EXTENDS Naturals, Sequences, FiniteSets, TLC

VARIABLES
    events,        \* events table: set of rows [id, name, date, type]
    members,       \* members table in rowid order; a deleted row leaves a gap
    students,      \* students table in rowid order: <<[id, name, first_event_id]>>
    attendance,    \* attendance table: set of rows
    attSeq,        \* number of attendance ids generated so far
    mailing_list,  \* mailing_list table in rowid order: <<[id, name, email, event_id]>>
    ocr_jobs,      \* ocr_jobs table in rowid order
    blobs,         \* keys stored in the PHOTOS bucket
    req            \* per worker: the request in flight, its locals and its response

vars ==
    <<events, members, students, attendance, attSeq, mailing_list, ocr_jobs, blobs, req>>

----------------------------------------------------------------------------
(* Bounds *)

MaxEntries == 2      \* entries in one request body
MaxAttIds == 3       \* attendance ids ever generated
MaxJobs == 2         \* uploads ever stored, each with at most one ocr job
MaxMembers == 2      \* member rows ever inserted
MaxStudents == 3     \* student rows ever inserted through POST /api/students

NULL == "null"

----------------------------------------------------------------------------
(* Strings *)

IsSpace(c) == c = " "

RECURSIVE TrimStart(_)
TrimStart(s) ==
    IF s # <<>> /\ IsSpace(Head(s)) THEN TrimStart(Tail(s)) ELSE s

RECURSIVE TrimEnd(_)
TrimEnd(s) ==
    IF s # <<>> /\ IsSpace(s[Len(s)]) THEN TrimEnd(SubSeq(s, 1, Len(s) - 1)) ELSE s

\* String.prototype.trim
Trim(s) == TrimEnd(TrimStart(s))

LowerChar(c) ==
    CASE c = "A" -> "a"
      [] c = "B" -> "b"
      [] c = "X" -> "x"
      [] c = "Y" -> "y"
      [] OTHER -> c

\* String.prototype.toLowerCase
ToLowerCase(s) == [i \in 1..Len(s) |-> LowerChar(s[i])]

Has(o, f) == f \in DOMAIN o

\* o.f?.trim() is truthy
TruthyTrimmed(o, f) == Has(o, f) /\ Trim(o[f]) # <<>>

\* o.f is truthy (a non-empty string)
Truthy(o, f) == Has(o, f) /\ o[f] # <<>>

\* o.f ?? null, for fields whose values are plain strings
OrNull(o, f) == IF Has(o, f) THEN o[f] ELSE NULL

Range(s) == {s[i] : i \in 1..Len(s)}

----------------------------------------------------------------------------
(* The store *)

Seats == {"N", "S", "E", "W"}
Sources == {"ocr", "manual", "online"}

\* getEventById: the row or null
GetEventById(id) == {e \in events : e.id = id}

EventExists(id) == GetEventById(id) # {}

\* SELECT * FROM students WHERE name = ? ... first(): the first row in rowid order
GetStudentByNameWrong(name) ==
    LET hits == {i \in 1..Len(students) :
                    ToLowerCase(students[i].name) = ToLowerCase(name)}
    IN  IF hits = {} THEN {}
        ELSE {students[CHOOSE i \in hits : \A j \in hits : i <= j]}

GetStudentByName(name) ==
    LET hits == {i \in 1..Len(students) : students[i].name = name}
    IN  IF hits = {} THEN {}
        ELSE {students[CHOOSE i \in hits : \A j \in hits : i <= j]}

\* INSERT INTO students: the row a new student gets
NewStudentWrong(name, eventId) ==
    [id |-> Len(students) + 1, name |-> name, first_event_id |-> NULL]

NewStudent(name, eventId) ==
    [id |-> Len(students) + 1, name |-> name, first_event_id |-> eventId]

\* The attendance rows of one event, as getEventWithAttendance returns them
AttendanceOfWrong(eventId) == {a \in attendance : a.event_id # eventId}

AttendanceOf(eventId) == {a \in attendance : a.event_id = eventId}

\* The constraint of the attendance table an INSERT of row violates:
\* CHECK(seat), CHECK(source) are evaluated before UNIQUE(event_id, student_id)
AttendanceViolationNoUnique(row) ==
    IF row.seat # NULL /\ row.seat \notin Seats THEN "CHECK"
    ELSE IF row.source \notin Sources THEN "CHECK"
    ELSE "none"

AttendanceViolationNoSeatCheck(row) ==
    IF row.source \notin Sources THEN "CHECK"
    ELSE IF \E a \in attendance :
                a.event_id = row.event_id /\ a.student_id = row.student_id
         THEN "UNIQUE"
    ELSE "none"

AttendanceViolation(row) ==
    IF row.seat # NULL /\ row.seat \notin Seats THEN "CHECK"
    ELSE IF row.source \notin Sources THEN "CHECK"
    ELSE IF \E a \in attendance :
                a.event_id = row.event_id /\ a.student_id = row.student_id
         THEN "UNIQUE"
    ELSE "none"

\* The table number is dropped
AttendanceRowNoTable(eventId, studentId, o, source) ==
    [id |-> attSeq + 1, event_id |-> eventId, student_id |-> studentId,
     table_number |-> NULL, seat |-> OrNull(o, "seat"), source |-> source]

\* recordAttendance: the row bound to the INSERT
AttendanceRow(eventId, studentId, o, source) ==
    [id |-> attSeq + 1, event_id |-> eventId, student_id |-> studentId,
     table_number |-> OrNull(o, "table_number"), seat |-> OrNull(o, "seat"),
     source |-> source]

\* SELECT * FROM mailing_list WHERE email = ? ... first()
GetMailingListByEmail(email) ==
    LET hits == {i \in 1..Len(mailing_list) : mailing_list[i].email = email}
    IN  IF hits = {} THEN {}
        ELSE {mailing_list[CHOOSE i \in hits : \A j \in hits : i <= j]}

\* The constraint of the mailing_list table an INSERT violates: email UNIQUE
MailingListViolation(row) ==
    IF \E i \in 1..Len(mailing_list) : mailing_list[i].email = row.email
    THEN "UNIQUE" ELSE "none"


----------------------------------------------------------------------------
(* Requests *)

Workers == DOMAIN req

Idle == [kind |-> "none", pc |-> "idle", status |-> 0]

Free(p) == req[p].pc \in {"idle", "done"}

\* A worker takes a new request; its previous response has been delivered
Accept(p, r) ==
    /\ Free(p)
    /\ req' = [req EXCEPT ![p] = r]

\* c.json(data, status) or app.onError: the handler is over
Respond(r, status, code) == [r EXCEPT !.pc = "done", !.status = status, !.code = code]

Set(p, r) == req' = [req EXCEPT ![p] = r]

StoreVars ==
    <<events, members, students, attendance, attSeq, mailing_list, ocr_jobs, blobs>>

----------------------------------------------------------------------------
(* getOrCreateStudentByName, shared by confirm and the attendance endpoints *)

\* Where the handler goes on once the student is resolved
AfterResolve(r) ==
    CASE r.kind = "confirm" -> "c_check"
      [] r.kind = "attend" -> "a_record"
      [] r.kind = "batch" -> "b_record"

\* const existing = await getStudentByName(db, name); if (existing) return existing;
ResolveLookup(p) ==
    LET r == req[p]
        found == GetStudentByName(r.name)
    IN  /\ r.pc = "lookup"
        /\ Set(p, IF found # {}
                  THEN [r EXCEPT !.student = found, !.pc = AfterResolve(r)]
                  ELSE [r EXCEPT !.pc = "insert_student"])
        /\ UNCHANGED StoreVars

\* return insertStudent(db, { name, first_event_id: eventId });
ResolveInsert(p) ==
    LET r == req[p]
        row == NewStudent(r.name, r.input.event)
    IN  /\ r.pc = "insert_student"
        /\ students' = Append(students, row)
        /\ Set(p, [r EXCEPT !.student = {row}, !.pc = AfterResolve(r)])
        /\ UNCHANGED <<events, members, attendance, attSeq, mailing_list, ocr_jobs, blobs>>

TheStudent(r) == CHOOSE s \in r.student : TRUE

----------------------------------------------------------------------------
(* POST /api/events/:id/confirm *)

RECURSIVE NextAttendanceEntryKeepBlank(_, _)
\* Only an entry with no student_name is passed over
NextAttendanceEntryKeepBlank(list, k) ==
    IF k > Len(list) \/ Has(list[k], "student_name") THEN k
    ELSE NextAttendanceEntryKeepBlank(list, k + 1)

RECURSIVE NextAttendanceEntry(_, _)
\* for (const entry of body.attendance) { if (!entry.student_name?.trim()) continue;
NextAttendanceEntry(list, k) ==
    IF k > Len(list) \/ TruthyTrimmed(list[k], "student_name") THEN k
    ELSE NextAttendanceEntry(list, k + 1)

RECURSIVE NextMailingEntry(_, _)
\* for (const entry of body.mailing_list) {
\*   if (!entry.name?.trim() || !entry.email?.trim()) continue;
NextMailingEntry(list, k) ==
    IF k > Len(list) \/ (TruthyTrimmed(list[k], "name") /\ TruthyTrimmed(list[k], "email"))
    THEN k
    ELSE NextMailingEntry(list, k + 1)

\* The mailing-list loop from entry k on; past its end, the response
ConfirmMailingFrom(r, k) ==
    LET j == NextMailingEntry(r.input.body.mailing_list, k)
    IN  IF j <= Len(r.input.body.mailing_list)
        THEN [r EXCEPT !.j = j, !.pc = "m_check"]
        ELSE Respond([r EXCEPT !.j = j], 200, "OK")

\* The attendance loop from entry k on; past its end, the mailing-list loop
ConfirmAttendanceFrom(r, k) ==
    LET i == NextAttendanceEntry(r.input.body.attendance, k)
    IN  IF i <= Len(r.input.body.attendance)
        THEN [r EXCEPT !.i = i, !.pc = "lookup",
                       !.name = Trim(r.input.body.attendance[i].student_name)]
        ELSE ConfirmMailingFrom([r EXCEPT !.i = i], 1)

\* prior: for a call that repeats the worker's previous call, what that call
\* answered and the tables it left
ConfirmRequest(event, body, prior) ==
    [kind |-> "confirm", pc |-> "c_event", status |-> 0, code |-> "",
     input |-> [event |-> event, body |-> body],
     i |-> 0, j |-> 0, name |-> <<>>, student |-> {},
     aresults |-> <<>>, mresults |-> <<>>, rejected |-> "none", prior |-> prior]

NoPrior == [status |-> 0, attendance |-> {}, students |-> <<>>, mailing_list |-> <<>>,
            aresults |-> <<>>]

StartConfirm(p, Events, Bodies) ==
    /\ \E event \in Events, body \in Bodies :
           Accept(p, ConfirmRequest(event, body, NoPrior))
    /\ UNCHANGED StoreVars

\* The client sends the confirm call it has just been answered once more
RepeatConfirm(p) ==
    LET r == req[p]
    IN  /\ r.kind = "confirm" /\ r.pc = "done" /\ r.prior = NoPrior
        /\ \A q \in Workers \ {p} : Free(q)
        /\ Accept(p, ConfirmRequest(r.input.event, r.input.body,
                                    [status |-> r.status, attendance |-> attendance,
                                     students |-> students, mailing_list |-> mailing_list,
                                     aresults |-> r.aresults]))
        /\ UNCHANGED StoreVars

\* getEventById, then the validation of the body
ConfirmGetEvent(p) ==
    LET r == req[p]
    IN  /\ r.kind = "confirm" /\ r.pc = "c_event"
        /\ Set(p, IF ~EventExists(r.input.event) THEN Respond(r, 404, "NOT_FOUND")
                  ELSE IF ~Has(r.input.body, "attendance") THEN Respond(r, 400, "BAD_REQUEST")
                  ELSE IF ~Has(r.input.body, "mailing_list") THEN Respond(r, 400, "BAD_REQUEST")
                  ELSE ConfirmAttendanceFrom(r, 1))
        /\ UNCHANGED StoreVars

\* The skipped branch brings the stored row up to date with the entry
ConfirmCheckOverwrite(p) ==
    LET r == req[p]
        entry == r.input.body.attendance[r.i]
        s == TheStudent(r)
        old == {a \in AttendanceOf(r.input.event) : a.student_id = s.id}
        new == {[a EXCEPT !.table_number = OrNull(entry, "table_number"),
                          !.seat = OrNull(entry, "seat")] : a \in old}
        result == [student_name |-> entry.student_name, student_id |-> s.id,
                   status |-> "skipped"]
    IN  /\ r.kind = "confirm" /\ r.pc = "c_check"
        /\ Set(p, IF old # {}
                  THEN ConfirmAttendanceFrom(
                           [r EXCEPT !.aresults = Append(@, result)], r.i + 1)
                  ELSE [r EXCEPT !.pc = "c_record"])
        /\ attendance' = (attendance \ old) \cup new
        /\ UNCHANGED <<events, members, students, attSeq, mailing_list, ocr_jobs, blobs>>

\* getEventWithAttendance, alreadyRecorded, and the skipped branch
ConfirmCheck(p) ==
    LET r == req[p]
        entry == r.input.body.attendance[r.i]
        s == TheStudent(r)
        alreadyRecorded == \E a \in AttendanceOf(r.input.event) : a.student_id = s.id
        result == [student_name |-> entry.student_name, student_id |-> s.id,
                   status |-> "skipped"]
    IN  /\ r.kind = "confirm" /\ r.pc = "c_check"
        /\ Set(p, IF alreadyRecorded
                  THEN ConfirmAttendanceFrom(
                           [r EXCEPT !.aresults = Append(@, result)], r.i + 1)
                  ELSE [r EXCEPT !.pc = "c_record"])
        /\ UNCHANGED StoreVars

\* A rejected INSERT takes back the rows of the call's earlier entries
ConfirmRecordRollback(p) ==
    LET r == req[p]
        entry == r.input.body.attendance[r.i]
        s == TheStudent(r)
        row == AttendanceRow(r.input.event, s.id, entry, "ocr")
        violation == AttendanceViolation(row)
        result == [student_name |-> entry.student_name, student_id |-> s.id,
                   status |-> "created"]
        written == {a \in attendance :
                       /\ a.event_id = r.input.event
                       /\ \E k \in 1..Len(r.aresults) :
                              /\ r.aresults[k].status = "created"
                              /\ r.aresults[k].student_id = a.student_id}
    IN  /\ r.kind = "confirm" /\ r.pc = "c_record"
        /\ violation = "none" => attSeq < MaxAttIds
        /\ IF violation # "none"
           THEN /\ Set(p, Respond([r EXCEPT !.rejected = violation], 500, "INTERNAL_ERROR"))
                /\ attendance' = attendance \ written
                /\ UNCHANGED attSeq
           ELSE /\ attendance' = attendance \cup {row}
                /\ attSeq' = attSeq + 1
                /\ Set(p, ConfirmAttendanceFrom(
                              [r EXCEPT !.aresults = Append(@, result)], r.i + 1))
        /\ UNCHANGED <<events, members, students, mailing_list, ocr_jobs, blobs>>

\* The row is written and the report is not told
ConfirmRecordUnreported(p) ==
    LET r == req[p]
        entry == r.input.body.attendance[r.i]
        row == AttendanceRow(r.input.event, TheStudent(r).id, entry, "ocr")
        violation == AttendanceViolation(row)
    IN  /\ r.kind = "confirm" /\ r.pc = "c_record"
        /\ violation = "none" => attSeq < MaxAttIds
        /\ IF violation # "none"
           THEN /\ Set(p, Respond([r EXCEPT !.rejected = violation], 500, "INTERNAL_ERROR"))
                /\ UNCHANGED <<attendance, attSeq>>
           ELSE /\ attendance' = attendance \cup {row}
                /\ attSeq' = attSeq + 1
                /\ Set(p, ConfirmAttendanceFrom(r, r.i + 1))
        /\ UNCHANGED <<events, members, students, mailing_list, ocr_jobs, blobs>>

\* recordAttendance with source 'ocr'; a rejected INSERT throws to app.onError
ConfirmRecord(p) ==
    LET r == req[p]
        entry == r.input.body.attendance[r.i]
        s == TheStudent(r)
        row == AttendanceRow(r.input.event, s.id, entry, "ocr")
        violation == AttendanceViolation(row)
        result == [student_name |-> entry.student_name, student_id |-> s.id,
                   status |-> "created"]
    IN  /\ r.kind = "confirm" /\ r.pc = "c_record"
        /\ violation = "none" => attSeq < MaxAttIds
        /\ IF violation # "none"
           THEN /\ Set(p, Respond([r EXCEPT !.rejected = violation], 500, "INTERNAL_ERROR"))
                /\ UNCHANGED <<attendance, attSeq>>
           ELSE /\ attendance' = attendance \cup {row}
                /\ attSeq' = attSeq + 1
                /\ Set(p, ConfirmAttendanceFrom(
                              [r EXCEPT !.aresults = Append(@, result)], r.i + 1))
        /\ UNCHANGED <<events, members, students, mailing_list, ocr_jobs, blobs>>

\* const email = entry.email.trim().toLowerCase()
ConfirmEmailNoLower(entry) == Trim(entry.email)

ConfirmEmail(entry) == ToLowerCase(Trim(entry.email))

\* getMailingListByEmail and the skipped branch
ConfirmMailCheck(p) ==
    LET r == req[p]
        entry == r.input.body.mailing_list[r.j]
        email == ConfirmEmail(entry)
        existing == GetMailingListByEmail(email)
        result == [name |-> entry.name, email |-> email, status |-> "skipped"]
    IN  /\ r.kind = "confirm" /\ r.pc = "m_check"
        /\ Set(p, IF existing # {}
                  THEN ConfirmMailingFrom(
                           [r EXCEPT !.mresults = Append(@, result)], r.j + 1)
                  ELSE [r EXCEPT !.pc = "m_add"])
        /\ UNCHANGED StoreVars

\* addMailingListEntry; a rejected INSERT throws to app.onError
ConfirmMailAdd(p) ==
    LET r == req[p]
        entry == r.input.body.mailing_list[r.j]
        email == ConfirmEmail(entry)
        row == [id |-> Len(mailing_list) + 1, name |-> Trim(entry.name),
                email |-> email, event_id |-> r.input.event]
        violation == MailingListViolation(row)
        result == [name |-> entry.name, email |-> email, status |-> "created"]
    IN  /\ r.kind = "confirm" /\ r.pc = "m_add"
        /\ IF violation # "none"
           THEN /\ Set(p, Respond([r EXCEPT !.rejected = violation], 500, "INTERNAL_ERROR"))
                /\ UNCHANGED mailing_list
           ELSE /\ mailing_list' = Append(mailing_list, row)
                /\ Set(p, ConfirmMailingFrom(
                              [r EXCEPT !.mresults = Append(@, result)], r.j + 1))
        /\ UNCHANGED <<events, members, students, attendance, attSeq, ocr_jobs, blobs>>

\* The counts of the response
Count(results, status) == Cardinality({k \in 1..Len(results) : results[k].status = status})

----------------------------------------------------------------------------
(* POST /api/events/:id/attendance *)

AttendRequest(event, body) ==
    [kind |-> "attend", pc |-> "a_event", status |-> 0, code |-> "",
     input |-> [event |-> event, body |-> body],
     name |-> <<>>, student |-> {}, rejected |-> "none"]

StartAttend(p, Events, Bodies) ==
    /\ \E event \in Events, body \in Bodies : Accept(p, AttendRequest(event, body))
    /\ UNCHANGED StoreVars

\* body.seat && !['N','S','E','W'].includes(body.seat)
BadSeat(body) == Has(body, "seat") /\ body.seat # "" /\ body.seat \notin Seats

\* The event is not looked up
AttendGetEventNoLookup(p) ==
    LET r == req[p]
        body == r.input.body
    IN  /\ r.kind = "attend" /\ r.pc = "a_event"
        /\ Set(p, IF ~Truthy(body, "student_name") THEN Respond(r, 400, "BAD_REQUEST")
                  ELSE IF BadSeat(body) THEN Respond(r, 400, "BAD_REQUEST")
                  ELSE [r EXCEPT !.pc = "lookup", !.name = body.student_name])
        /\ UNCHANGED StoreVars

\* The validation of the body, then getEventById
AttendGetEvent(p) ==
    LET r == req[p]
        body == r.input.body
    IN  /\ r.kind = "attend" /\ r.pc = "a_event"
        /\ Set(p, IF ~Truthy(body, "student_name") THEN Respond(r, 400, "BAD_REQUEST")
                  ELSE IF BadSeat(body) THEN Respond(r, 400, "BAD_REQUEST")
                  ELSE IF ~EventExists(r.input.event) THEN Respond(r, 404, "NOT_FOUND")
                  ELSE [r EXCEPT !.pc = "lookup", !.name = body.student_name])
        /\ UNCHANGED StoreVars

\* body.source ?? 'manual'
SourceOf(o) == IF Has(o, "source") THEN o.source ELSE "manual"

\* recordAttendance in try/catch: a UNIQUE rejection becomes Conflict
AttendRecord(p) ==
    LET r == req[p]
        body == r.input.body
        row == AttendanceRow(r.input.event, TheStudent(r).id, body, SourceOf(body))
        violation == AttendanceViolation(row)
    IN  /\ r.kind = "attend" /\ r.pc = "a_record"
        /\ violation = "none" => attSeq < MaxAttIds
        /\ IF violation = "none"
           THEN /\ attendance' = attendance \cup {row}
                /\ attSeq' = attSeq + 1
                /\ Set(p, Respond(r, 201, "CREATED"))
           ELSE /\ UNCHANGED <<attendance, attSeq>>
                /\ Set(p, IF violation = "UNIQUE"
                          THEN Respond([r EXCEPT !.rejected = violation], 409, "CONFLICT")
                          ELSE Respond([r EXCEPT !.rejected = violation], 500, "INTERNAL_ERROR"))
        /\ UNCHANGED <<events, members, students, mailing_list, ocr_jobs, blobs>>

----------------------------------------------------------------------------
(* POST /api/events/:id/attendance/batch *)

RECURSIVE BatchFrom(_, _)
\* The loop from record k on: a record without a name is pushed as skipped
BatchFrom(r, k) ==
    LET records == r.input.body.records
    IN  IF k > Len(records) THEN Respond([r EXCEPT !.i = k], 201, "CREATED")
        ELSE IF ~Truthy(records[k], "student_name")
        THEN BatchFrom([r EXCEPT !.aresults =
                            Append(@, [student_name |-> <<"(", "e", "m", "p", "t", "y", ")">>,
                                       status |-> "skipped"])], k + 1)
        ELSE [r EXCEPT !.i = k, !.pc = "lookup", !.name = records[k].student_name]

BatchRequest(event, body) ==
    [kind |-> "batch", pc |-> "b_event", status |-> 0, code |-> "",
     input |-> [event |-> event, body |-> body],
     i |-> 0, name |-> <<>>, student |-> {}, aresults |-> <<>>, rejected |-> "none"]

StartBatch(p, Events, Bodies) ==
    /\ \E event \in Events, body \in Bodies : Accept(p, BatchRequest(event, body))
    /\ UNCHANGED StoreVars

\* if (!body.records?.length) throw badRequest; then getEventById
BatchGetEvent(p) ==
    LET r == req[p]
        body == r.input.body
    IN  /\ r.kind = "batch" /\ r.pc = "b_event"
        /\ Set(p, IF ~Has(body, "records") \/ body.records = <<>>
                  THEN Respond(r, 400, "BAD_REQUEST")
                  ELSE IF ~EventExists(r.input.event) THEN Respond(r, 404, "NOT_FOUND")
                  ELSE BatchFrom(r, 1))
        /\ UNCHANGED StoreVars

\* A UNIQUE rejection ends the batch with a Conflict, as the single endpoint does
BatchRecordConflict(p) ==
    LET r == req[p]
        record == r.input.body.records[r.i]
        row == AttendanceRow(r.input.event, TheStudent(r).id, record, SourceOf(record))
        violation == AttendanceViolation(row)
        result(status) == [student_name |-> record.student_name, status |-> status]
    IN  /\ r.kind = "batch" /\ r.pc = "b_record"
        /\ violation = "none" => attSeq < MaxAttIds
        /\ IF violation = "none"
           THEN /\ attendance' = attendance \cup {row}
                /\ attSeq' = attSeq + 1
                /\ Set(p, BatchFrom([r EXCEPT !.aresults = Append(@, result("created"))],
                                    r.i + 1))
           ELSE /\ UNCHANGED <<attendance, attSeq>>
                /\ Set(p, IF violation = "UNIQUE"
                          THEN Respond([r EXCEPT !.rejected = violation], 409, "CONFLICT")
                          ELSE Respond([r EXCEPT !.rejected = violation], 500, "INTERNAL_ERROR"))
        /\ UNCHANGED <<events, members, students, mailing_list, ocr_jobs, blobs>>

\* recordAttendance in try/catch: a UNIQUE rejection is pushed as skipped
BatchRecord(p) ==
    LET r == req[p]
        record == r.input.body.records[r.i]
        row == AttendanceRow(r.input.event, TheStudent(r).id, record, SourceOf(record))
        violation == AttendanceViolation(row)
        result(status) == [student_name |-> record.student_name, status |-> status]
    IN  /\ r.kind = "batch" /\ r.pc = "b_record"
        /\ violation = "none" => attSeq < MaxAttIds
        /\ IF violation = "none"
           THEN /\ attendance' = attendance \cup {row}
                /\ attSeq' = attSeq + 1
                /\ Set(p, BatchFrom([r EXCEPT !.aresults = Append(@, result("created"))],
                                    r.i + 1))
           ELSE /\ UNCHANGED <<attendance, attSeq>>
                /\ Set(p, IF violation = "UNIQUE"
                          THEN BatchFrom([r EXCEPT !.aresults = Append(@, result("skipped")),
                                                   !.rejected = violation], r.i + 1)
                          ELSE Respond([r EXCEPT !.rejected = violation], 500, "INTERNAL_ERROR"))
        /\ UNCHANGED <<events, members, students, mailing_list, ocr_jobs, blobs>>

----------------------------------------------------------------------------
(* DELETE /api/events/:id/attendance/:studentId *)

DeleteRequest(event, studentId) ==
    [kind |-> "delete", pc |-> "d_delete", status |-> 0, code |-> "",
     input |-> [event |-> event, student_id |-> studentId]]

StartDelete(p, Events, StudentIds) ==
    /\ \E event \in Events, id \in StudentIds : Accept(p, DeleteRequest(event, id))
    /\ UNCHANGED StoreVars

\* The student goes with the attendance row
DeleteAttendanceAndStudent(p) ==
    LET r == req[p]
        hit == {a \in attendance :
                   a.event_id = r.input.event /\ a.student_id = r.input.student_id}
        Others(st) == st.id # r.input.student_id
    IN  /\ r.kind = "delete" /\ r.pc = "d_delete"
        /\ attendance' = attendance \ hit
        /\ students' = IF hit = {} THEN students ELSE SelectSeq(students, Others)
        /\ Set(p, IF hit = {} THEN Respond(r, 404, "NOT_FOUND")
                  ELSE Respond(r, 204, "NO_CONTENT"))
        /\ UNCHANGED <<events, members, attSeq, mailing_list, ocr_jobs, blobs>>

\* deleteAttendance: DELETE ... WHERE event_id = ? AND student_id = ?; changes > 0
DeleteAttendance(p) ==
    LET r == req[p]
        hit == {a \in attendance :
                   a.event_id = r.input.event /\ a.student_id = r.input.student_id}
    IN  /\ r.kind = "delete" /\ r.pc = "d_delete"
        /\ attendance' = attendance \ hit
        /\ Set(p, IF hit = {} THEN Respond(r, 404, "NOT_FOUND")
                  ELSE Respond(r, 204, "NO_CONTENT"))
        /\ UNCHANGED <<events, members, students, attSeq, mailing_list, ocr_jobs, blobs>>

----------------------------------------------------------------------------
(* POST /api/events/:id/scan and POST /api/events/:id/photos *)

ALLOWED_TYPES == {"image/jpeg", "image/png", "image/gif", "image/webp"}

\* MAX_SIZE, in megabytes
MAX_SIZE == 10

\* `${eventId}/${type}/${timestamp}-${generateId().slice(0, 8)}.${ext}`: the
\* timestamp and random part make the key fresh
R2Key(eventId, type) == <<eventId, type, Cardinality(blobs) + 1>>

\* The row takes the id of the first job
InsertOcrJobSameId(eventId, r2Key) ==
    [id |-> 1, event_id |-> eventId, r2_key |-> r2Key,
     status |-> "pending", result_json |-> NULL, error_message |-> NULL]

\* insertOcrJob: status takes the column default, result and error are NULL
InsertOcrJob(eventId, r2Key) ==
    [id |-> Len(ocr_jobs) + 1, event_id |-> eventId, r2_key |-> r2Key,
     status |-> "pending", result_json |-> NULL, error_message |-> NULL]

UpdateOcrJobSkipped(id) == ocr_jobs

\* Every pending job is taken into processing
UpdateOcrJobProcessingAllPending(id) ==
    [i \in 1..Len(ocr_jobs) |->
        IF ocr_jobs[i].status = "pending"
        THEN [ocr_jobs[i] EXCEPT !.status = "processing"]
        ELSE ocr_jobs[i]]

UpdateOcrJobProcessing(id) ==
    [ocr_jobs EXCEPT ![id].status = "processing"]

UpdateOcrJobCompleteNoResult(id, resultJson) ==
    [ocr_jobs EXCEPT ![id].status = "complete"]

UpdateOcrJobComplete(id, resultJson) ==
    [ocr_jobs EXCEPT ![id].status = "complete", ![id].result_json = resultJson]

UpdateOcrJobFailedNoMessage(id, errorMessage) ==
    [ocr_jobs EXCEPT ![id].status = "failed"]

UpdateOcrJobFailedLost(id, errorMessage) == ocr_jobs

UpdateOcrJobFailedUnlinked(id, errorMessage) ==
    [ocr_jobs EXCEPT ![id].status = "failed", ![id].error_message = errorMessage,
                     ![id].r2_key = <<>>]

UpdateOcrJobFailed(id, errorMessage) ==
    [ocr_jobs EXCEPT ![id].status = "failed", ![id].error_message = errorMessage]

\* processAttendanceSheet on the reply of the vision API: the call is
\* refused, the reply has no text block, the text is not JSON, the JSON is
\* not an object the normalizer can read, or the normalized result is returned
ProcessAttendanceSheet(reply) ==
    IF ~reply.ok
    THEN [threw |-> TRUE, isError |-> TRUE, message |-> "Anthropic API error"]
    ELSE IF reply.text = NULL
    THEN [threw |-> TRUE, isError |-> TRUE,
          message |-> "No text content in Anthropic API response"]
    ELSE IF reply.text = "not json"
    THEN [threw |-> TRUE, isError |-> TRUE,
          message |-> "Failed to parse OCR result as JSON"]
    ELSE IF reply.text = "json null"
    THEN [threw |-> TRUE, isError |-> TRUE,
          message |-> "Cannot read properties of null"]
    ELSE [threw |-> FALSE, result |-> reply.text]

\* err instanceof Error ? err.message : 'Unknown OCR error'
ErrorMessage(err) == IF err.isError THEN err.message ELSE "Unknown OCR error"

ScanRequest(event, apiKey, photo) ==
    [kind |-> "scan", pc |-> "s_event", status |-> 0, code |-> "",
     input |-> [event |-> event, api_key |-> apiKey, photo |-> photo],
     key |-> <<>>, job |-> 0, outcome |-> [threw |-> FALSE, result |-> NULL],
     scan_status |-> NULL]

StartScan(p, Inputs) ==
    /\ \E in \in Inputs : Accept(p, ScanRequest(in.event, in.api_key, in.photo))
    /\ UNCHANGED StoreVars

\* The size of the image is not looked at
ScanGetEventAnySize(p) ==
    LET r == req[p]
        photo == r.input.photo
    IN  /\ r.kind = "scan" /\ r.pc = "s_event"
        /\ Set(p, IF ~EventExists(r.input.event) THEN Respond(r, 404, "NOT_FOUND")
                  ELSE IF ~r.input.api_key THEN Respond(r, 400, "BAD_REQUEST")
                  ELSE IF photo = {} THEN Respond(r, 400, "BAD_REQUEST")
                  ELSE IF \E f \in photo : f.type \notin ALLOWED_TYPES
                       THEN Respond(r, 400, "BAD_REQUEST")
                  ELSE [r EXCEPT !.pc = "s_put"])
        /\ UNCHANGED StoreVars

\* getEventById and the checks on the key and the uploaded file
ScanGetEvent(p) ==
    LET r == req[p]
        photo == r.input.photo
    IN  /\ r.kind = "scan" /\ r.pc = "s_event"
        /\ Set(p, IF ~EventExists(r.input.event) THEN Respond(r, 404, "NOT_FOUND")
                  ELSE IF ~r.input.api_key THEN Respond(r, 400, "BAD_REQUEST")
                  ELSE IF photo = {} THEN Respond(r, 400, "BAD_REQUEST")
                  ELSE IF \E f \in photo : f.type \notin ALLOWED_TYPES
                       THEN Respond(r, 400, "BAD_REQUEST")
                  ELSE IF \E f \in photo : f.size > MAX_SIZE
                       THEN Respond(r, 400, "BAD_REQUEST")
                  ELSE [r EXCEPT !.pc = "s_put"])
        /\ UNCHANGED StoreVars

\* PHOTOS.put
ScanPut(p) ==
    LET r == req[p]
        r2Key == R2Key(r.input.event, "attendance-sheet")
    IN  /\ r.kind = "scan" /\ r.pc = "s_put"
        /\ Cardinality(blobs) < MaxJobs
        /\ blobs' = blobs \cup {r2Key}
        /\ Set(p, [r EXCEPT !.pc = "s_insert", !.key = r2Key])
        /\ UNCHANGED <<events, members, students, attendance, attSeq, mailing_list, ocr_jobs>>

ScanInsertJob(p) ==
    LET r == req[p]
        ocrJob == InsertOcrJob(r.input.event, r.key)
    IN  /\ r.kind = "scan" /\ r.pc = "s_insert"
        /\ ocr_jobs' = Append(ocr_jobs, ocrJob)
        /\ Set(p, [r EXCEPT !.pc = "s_processing", !.job = ocrJob.id])
        /\ UNCHANGED <<events, members, students, attendance, attSeq, mailing_list, blobs>>

ScanProcessing(p) ==
    LET r == req[p]
    IN  /\ r.kind = "scan" /\ r.pc = "s_processing"
        /\ ocr_jobs' = UpdateOcrJobProcessing(r.job)
        /\ Set(p, [r EXCEPT !.pc = "s_vision"])
        /\ UNCHANGED <<events, members, students, attendance, attSeq, mailing_list, blobs>>

\* await processAttendanceSheet(...): returns the result or throws
ScanVision(p, Replies) ==
    LET r == req[p]
    IN  /\ r.kind = "scan" /\ r.pc = "s_vision"
        /\ \E reply \in Replies :
               LET outcome == IF reply.rejects
                              THEN [threw |-> TRUE, isError |-> FALSE]
                              ELSE ProcessAttendanceSheet(reply)
               IN  Set(p, [r EXCEPT !.outcome = outcome,
                                    !.pc = IF outcome.threw THEN "s_failed"
                                           ELSE "s_complete"])
        /\ UNCHANGED StoreVars

\* updateOcrJobComplete, then the response with status 'complete'
ScanComplete(p) ==
    LET r == req[p]
    IN  /\ r.kind = "scan" /\ r.pc = "s_complete"
        /\ ocr_jobs' = UpdateOcrJobComplete(r.job, r.outcome.result)
        /\ Set(p, Respond([r EXCEPT !.scan_status = "complete"], 200, "OK"))
        /\ UNCHANGED <<events, members, students, attendance, attSeq, mailing_list, blobs>>

\* the catch branch: updateOcrJobFailed, then the response with status 'failed'
ScanFailed(p) ==
    LET r == req[p]
    IN  /\ r.kind = "scan" /\ r.pc = "s_failed"
        /\ ocr_jobs' = UpdateOcrJobFailed(r.job, ErrorMessage(r.outcome))
        /\ Set(p, Respond([r EXCEPT !.scan_status = "failed"], 200, "OK"))
        /\ UNCHANGED <<events, members, students, attendance, attSeq, mailing_list, blobs>>

PhotoRequest(event, photo, type, tableNumber) ==
    [kind |-> "photo", pc |-> "p_event", status |-> 0, code |-> "",
     input |-> [event |-> event, photo |-> photo, type |-> type,
                table_number |-> tableNumber],
     key |-> <<>>, job |-> 0]

StartPhoto(p, Inputs) ==
    /\ \E in \in Inputs :
           Accept(p, PhotoRequest(in.event, in.photo, in.type, in.table_number))
    /\ UNCHANGED StoreVars

PhotoGetEvent(p) ==
    LET r == req[p]
    IN  /\ r.kind = "photo" /\ r.pc = "p_event"
        /\ Set(p, IF ~EventExists(r.input.event) THEN Respond(r, 404, "NOT_FOUND")
                  ELSE IF r.input.photo = {} THEN Respond(r, 400, "BAD_REQUEST")
                  ELSE IF r.input.type \notin {"attendance-sheet", "table-photo"}
                       THEN Respond(r, 400, "BAD_REQUEST")
                  ELSE IF r.input.type = "table-photo" /\ r.input.table_number = NULL
                       THEN Respond(r, 400, "BAD_REQUEST")
                  ELSE [r EXCEPT !.pc = "p_put"])
        /\ UNCHANGED StoreVars

PhotoPut(p) ==
    LET r == req[p]
        r2Key == R2Key(r.input.event, r.input.type)
    IN  /\ r.kind = "photo" /\ r.pc = "p_put"
        /\ Cardinality(blobs) < MaxJobs
        /\ blobs' = blobs \cup {r2Key}
        /\ Set(p, [r EXCEPT !.pc = "p_insert", !.key = r2Key])
        /\ UNCHANGED <<events, members, students, attendance, attSeq, mailing_list, ocr_jobs>>

\* insertTablePhoto or insertOcrJob; an uploaded sheet's job is left pending
PhotoInsert(p) ==
    LET r == req[p]
        ocrJob == InsertOcrJob(r.input.event, r.key)
    IN  /\ r.kind = "photo" /\ r.pc = "p_insert"
        /\ IF r.input.type = "table-photo"
           THEN /\ ocr_jobs' = ocr_jobs
                /\ Set(p, Respond(r, 201, "CREATED"))
           ELSE /\ ocr_jobs' = Append(ocr_jobs, ocrJob)
                /\ Set(p, Respond([r EXCEPT !.job = ocrJob.id], 201, "CREATED"))
        /\ UNCHANGED <<events, members, students, attendance, attSeq, mailing_list, blobs>>

----------------------------------------------------------------------------
(* validateOcrResult and normalizeSeat (claude-vision.ts) *)

\* Values of JSON.parse, and undefined for a property that is not there.
\* A number is held as its decimal literal.
JUndefined == [t |-> "undefined"]
JNull == [t |-> "null"]
JBool(b) == [t |-> "boolean", b |-> b]
JNum(n) == [t |-> "number", n |-> n]
JStr(s) == [t |-> "string", s |-> s]
JArr(a) == [t |-> "array", a |-> a]
JObj(o) == [t |-> "object", o |-> o]

\* v == null (null or undefined): property access on it throws a TypeError
Nullish(v) == v.t \in {"null", "undefined"}

\* v.f where v is not nullish; the fields read here are own properties of
\* plain objects only
Get(v, f) == IF v.t = "object" /\ f \in DOMAIN v.o THEN v.o[f] ELSE JUndefined

UpperChar(c) ==
    CASE c = "a" -> "A"
      [] c = "e" -> "E"
      [] c = "h" -> "H"
      [] c = "n" -> "N"
      [] c = "o" -> "O"
      [] c = "p" -> "P"
      [] c = "r" -> "R"
      [] c = "s" -> "S"
      [] c = "t" -> "T"
      [] c = "u" -> "U"
      [] c = "w" -> "W"
      [] OTHER -> c

\* String.prototype.toUpperCase
ToUpperCase(s) == [i \in 1..Len(s) |-> UpperChar(s[i])]

NormalizeSeatCaseSensitive(seat) ==
    IF seat.t # "string" THEN NULL
    ELSE LET upper == Trim(seat.s)
         IN  IF upper = <<"N", "O", "R", "T", "H">> THEN "N"
             ELSE IF upper = <<"S", "O", "U", "T", "H">> THEN "S"
             ELSE IF upper = <<"E", "A", "S", "T">> THEN "E"
             ELSE IF upper = <<"W", "E", "S", "T">> THEN "W"
             ELSE IF Len(upper) = 1 /\ upper[1] \in {"N", "S", "E", "W"} THEN upper[1]
             ELSE NULL

\* The single letters are not accepted
NormalizeSeatWordsOnly(seat) ==
    IF seat.t # "string" THEN NULL
    ELSE LET upper == ToUpperCase(Trim(seat.s))
         IN  IF upper = <<"N", "O", "R", "T", "H">> THEN "N"
             ELSE IF upper = <<"S", "O", "U", "T", "H">> THEN "S"
             ELSE IF upper = <<"E", "A", "S", "T">> THEN "E"
             ELSE IF upper = <<"W", "E", "S", "T">> THEN "W"
             ELSE NULL

NormalizeSeat(seat) ==
    IF seat.t # "string" THEN NULL
    ELSE LET upper == ToUpperCase(Trim(seat.s))
         IN  IF upper = <<"N", "O", "R", "T", "H">> THEN "N"
             ELSE IF upper = <<"S", "O", "U", "T", "H">> THEN "S"
             ELSE IF upper = <<"E", "A", "S", "T">> THEN "E"
             ELSE IF upper = <<"W", "E", "S", "T">> THEN "W"
             ELSE IF Len(upper) = 1 /\ upper[1] \in {"N", "S", "E", "W"} THEN upper[1]
             ELSE NULL

\* (v ?? '').trim(): v.trim is not a function unless v is a string
TrimThrows(v) == ~Nullish(v) /\ v.t # "string"

OrEmptyTrimmed(v) == IF Nullish(v) THEN <<>> ELSE Trim(v.s)

\* typeof v === 'number' ? v : d
NumberOr(v, d) == IF v.t = "number" THEN v ELSE d

\* v ?? d
Coalesce(v, d) == IF Nullish(v) THEN d ELSE v

MapAttendanceEntry(entry) ==
    [name |-> OrEmptyTrimmed(Get(entry, "name")),
     table_number |-> NumberOr(Get(entry, "table_number"), JNull),
     seat |-> NormalizeSeat(Get(entry, "seat")),
     is_checked |-> Coalesce(Get(entry, "is_checked"), JNull),
     confidence |-> NumberOr(Get(entry, "confidence"), JNum("0.5"))]

MapMailingEntryNoLower(entry) ==
    [name |-> OrEmptyTrimmed(Get(entry, "name")),
     email |-> OrEmptyTrimmed(Get(entry, "email")),
     confidence |-> NumberOr(Get(entry, "confidence"), JNum("0.5"))]

MapMailingEntry(entry) ==
    [name |-> OrEmptyTrimmed(Get(entry, "name")),
     email |-> ToLowerCase(OrEmptyTrimmed(Get(entry, "email"))),
     confidence |-> NumberOr(Get(entry, "confidence"), JNum("0.5"))]

\* (list ?? []).map(...) throws: list is no array, an entry is nullish, or a
\* field that is trimmed is neither nullish nor a string
MapThrows(list, fields) ==
    /\ ~Nullish(list)
    /\ \/ list.t # "array"
       \/ \E i \in 1..Len(list.a) :
              \/ Nullish(list.a[i])
              \/ \E f \in fields : TrimThrows(Get(list.a[i], f))

Entries(list) == IF Nullish(list) THEN <<>> ELSE list.a

KeepAttendance(e) == Len(e.name) > 0

KeepMailingAnyEmail(e) == Len(e.name) > 0

KeepMailing(e) == Len(e.name) > 0 /\ Len(e.email) > 0

ValidateOcrResult(raw) ==
    IF \/ Nullish(raw)
       \/ MapThrows(Get(raw, "attendance"), {"name"})
       \/ MapThrows(Get(raw, "mailing_list"), {"name", "email"})
    THEN [threw |-> TRUE, isError |-> TRUE, message |-> "TypeError"]
    ELSE LET rawAttendance == Entries(Get(raw, "attendance"))
             rawMailing == Entries(Get(raw, "mailing_list"))
         IN  [threw |-> FALSE,
              result |->
                [qr_data |-> Coalesce(Get(raw, "qr_data"), JNull),
                 form_type |-> IF Get(raw, "form_type") = JStr(<<"r", "o", "s", "t", "e", "r">>)
                               THEN "roster" ELSE "blank",
                 attendance |->
                     SelectSeq([i \in 1..Len(rawAttendance) |->
                                    MapAttendanceEntry(rawAttendance[i])],
                               KeepAttendance),
                 mailing_list |->
                     SelectSeq([i \in 1..Len(rawMailing) |->
                                    MapMailingEntry(rawMailing[i])],
                               KeepMailing),
                 confidence |-> NumberOr(Get(raw, "confidence"), JNum("0.5")),
                 notes |-> Coalesce(Get(raw, "notes"), JStr(<<>>))]]

ValidateRequest(raw) ==
    [kind |-> "validate", pc |-> "v_call", status |-> 0, code |-> "",
     raw |-> raw, out |-> [threw |-> FALSE, result |-> {}]]

\* return validateOcrResult(parsed), on what JSON.parse returned
StartValidate(p, Raws) ==
    /\ \E raw \in Raws : Accept(p, ValidateRequest(raw))
    /\ UNCHANGED StoreVars

ValidateCall(p) ==
    LET r == req[p]
    IN  /\ r.kind = "validate" /\ r.pc = "v_call"
        /\ Set(p, [r EXCEPT !.pc = "done", !.out = ValidateOcrResult(r.raw)])
        /\ UNCHANGED StoreVars

\* The canonical result as a value that validateOcrResult takes: strings for
\* the names, emails, seats and the form type, the other fields as they are
AsParsed(result) ==
    LET Attendance(e) ==
            JObj([name |-> JStr(e.name), table_number |-> e.table_number,
                  seat |-> IF e.seat = NULL THEN JNull ELSE JStr(<<e.seat>>),
                  is_checked |-> e.is_checked, confidence |-> e.confidence])
        Mailing(e) ==
            JObj([name |-> JStr(e.name), email |-> JStr(e.email),
                  confidence |-> e.confidence])
    IN  JObj([qr_data |-> result.qr_data,
              form_type |-> IF result.form_type = "roster"
                            THEN JStr(<<"r", "o", "s", "t", "e", "r">>)
                            ELSE JStr(<<"b", "l", "a", "n", "k">>),
              attendance |-> JArr([i \in 1..Len(result.attendance) |->
                                      Attendance(result.attendance[i])]),
              mailing_list |-> JArr([i \in 1..Len(result.mailing_list) |->
                                        Mailing(result.mailing_list[i])]),
              confidence |-> result.confidence,
              notes |-> result.notes])

RevalidateRequest(first) ==
    [kind |-> "revalidate", pc |-> "v_again", status |-> 0, code |-> "",
     first |-> first, raw |-> AsParsed(first), out |-> [threw |-> FALSE, result |-> {}]]

\* validateOcrResult is handed the result it has just returned
StartRevalidate(p) ==
    LET r == req[p]
    IN  /\ r.kind = "validate" /\ r.pc = "done" /\ ~r.out.threw
        /\ Accept(p, RevalidateRequest(r.out.result))
        /\ UNCHANGED StoreVars

RevalidateCall(p) ==
    LET r == req[p]
    IN  /\ r.kind = "revalidate" /\ r.pc = "v_again"
        /\ Set(p, [r EXCEPT !.pc = "done", !.out = ValidateOcrResult(r.raw)])
        /\ UNCHANGED StoreVars

SeatRequest(seat) ==
    [kind |-> "seat", pc |-> "n_call", status |-> 0, code |-> "",
     seat |-> seat, out |-> NULL]

StartSeat(p, SeatValues) ==
    /\ \E seat \in SeatValues : Accept(p, SeatRequest(seat))
    /\ UNCHANGED StoreVars

NormalizeSeatCall(p) ==
    LET r == req[p]
    IN  /\ r.kind = "seat" /\ r.pc = "n_call"
        /\ Set(p, [r EXCEPT !.pc = "done", !.out = NormalizeSeat(r.seat)])
        /\ UNCHANGED StoreVars

----------------------------------------------------------------------------
(* /api/members and GET /api/events/:id/roster *)

\* The rows of the members table; DELETE leaves a gap in rowid order
LiveMembers == {i \in 1..Len(members) : ~members[i].deleted}

\* getMemberByEmail
GetMemberByEmail(email) == {i \in LiveMembers : members[i].email = email}

MemberAddRequest(body) ==
    [kind |-> "member_add", pc |-> "ma_check", status |-> 0, code |-> "",
     input |-> [body |-> body], rejected |-> "none"]

StartMemberAdd(p, Bodies) ==
    /\ \E body \in Bodies : Accept(p, MemberAddRequest(body))
    /\ UNCHANGED StoreVars

\* the checks on name and email, then getMemberByEmail
MemberAddCheck(p) ==
    LET r == req[p]
        body == r.input.body
    IN  /\ r.kind = "member_add" /\ r.pc = "ma_check"
        /\ Set(p, IF ~TruthyTrimmed(body, "name") \/ ~TruthyTrimmed(body, "email")
                  THEN Respond(r, 400, "BAD_REQUEST")
                  ELSE IF GetMemberByEmail(ToLowerCase(Trim(body.email))) # {}
                       THEN Respond(r, 200, "already_exists")
                  ELSE [r EXCEPT !.pc = "ma_insert"])
        /\ UNCHANGED StoreVars

\* insertMember; the email column is UNIQUE
MemberAddInsert(p) ==
    LET r == req[p]
        body == r.input.body
        row == [id |-> Len(members) + 1, name |-> Trim(body.name),
                email |-> ToLowerCase(Trim(body.email)),
                declined |-> Has(body, "declined") /\ body.declined,
                deleted |-> FALSE]
    IN  /\ r.kind = "member_add" /\ r.pc = "ma_insert"
        /\ IF GetMemberByEmail(row.email) # {}
           THEN /\ Set(p, Respond([r EXCEPT !.rejected = "UNIQUE"], 500, "INTERNAL_ERROR"))
                /\ UNCHANGED members
           ELSE /\ Len(members) < MaxMembers
                /\ members' = Append(members, row)
                /\ Set(p, Respond(r, 201, "CREATED"))
        /\ UNCHANGED <<events, students, attendance, attSeq, mailing_list, ocr_jobs, blobs>>

MemberDeleteRequest(id) ==
    [kind |-> "member_delete", pc |-> "md_delete", status |-> 0, code |-> "",
     input |-> [id |-> id]]

StartMemberDelete(p, Ids) ==
    /\ \E id \in Ids : Accept(p, MemberDeleteRequest(id))
    /\ UNCHANGED StoreVars

\* deleteMember: DELETE FROM members WHERE id = ?; changes > 0
MemberDelete(p) ==
    LET r == req[p]
        id == r.input.id
    IN  /\ r.kind = "member_delete" /\ r.pc = "md_delete"
        /\ IF id \in LiveMembers
           THEN /\ members' = [members EXCEPT ![id].deleted = TRUE]
                /\ Set(p, Respond(r, 200, "OK"))
           ELSE /\ UNCHANGED members
                /\ Set(p, Respond(r, 404, "NOT_FOUND"))
        /\ UNCHANGED <<events, students, attendance, attSeq, mailing_list, ocr_jobs, blobs>>

MemberPatchRequest(id, body) ==
    [kind |-> "member_patch", pc |-> "mp_get", status |-> 0, code |-> "",
     input |-> [id |-> id, body |-> body]]

StartMemberPatch(p, Ids, Bodies) ==
    /\ \E id \in Ids, body \in Bodies : Accept(p, MemberPatchRequest(id, body))
    /\ UNCHANGED StoreVars

\* getMemberById
MemberPatchGet(p) ==
    LET r == req[p]
    IN  /\ r.kind = "member_patch" /\ r.pc = "mp_get"
        /\ Set(p, IF r.input.id \in LiveMembers THEN [r EXCEPT !.pc = "mp_update"]
                  ELSE Respond(r, 404, "NOT_FOUND"))
        /\ UNCHANGED StoreVars

\* updateMemberDeclined when body.declined is a boolean; UPDATE ... WHERE id = ?
MemberPatchUpdate(p) ==
    LET r == req[p]
        id == r.input.id
    IN  /\ r.kind = "member_patch" /\ r.pc = "mp_update"
        /\ members' = IF Has(r.input.body, "declined") /\ id \in LiveMembers
                      THEN [members EXCEPT ![id].declined = r.input.body.declined]
                      ELSE members
        /\ Set(p, Respond(r, 200, "OK"))
        /\ UNCHANGED <<events, students, attendance, attSeq, mailing_list, ocr_jobs, blobs>>

\* Members joined to a student: LOWER(s.name) = LOWER(m.name)
MatchingMembersExact(name) == {i \in LiveMembers : members[i].name = name}

MatchingMembers(name) ==
    {i \in LiveMembers : ToLowerCase(members[i].name) = ToLowerCase(name)}

\* The member columns of a roster row, 0 or 1 as SQLite holds them
MemberFlags(name) ==
    [is_member |-> IF MatchingMembers(name) # {} THEN 1 ELSE 0,
     declined |-> IF \E i \in MatchingMembers(name) : members[i].declined THEN 1 ELSE 0]

\* Attendance rows of a student at the occurrences of a class
ClassAttendanceFirstOccurrence(className, studentId) ==
    {a \in attendance :
        /\ a.student_id = studentId
        /\ \E e \in events : e.name = className /\ e.id = a.event_id /\ e.id = "E1"}

ClassAttendance(className, studentId) ==
    {a \in attendance :
        /\ a.student_id = studentId
        /\ \E e \in events : e.name = className /\ e.id = a.event_id}

\* getRosterForClass: one row for each student who attended an occurrence of
\* the class, with the member flags of the members matching by name
GetRosterForClass(className) ==
    LET Attended(s) == ClassAttendance(className, s.id) # {}
        Row(s) ==
            [student_id |-> s.id, student_name |-> s.name,
             is_member |-> MemberFlags(s.name).is_member,
             declined |-> MemberFlags(s.name).declined,
             events_attended |-> Cardinality(ClassAttendance(className, s.id))]
        rows == SelectSeq(students, Attended)
    IN  [k \in 1..Len(rows) |-> Row(rows[k])]

NeedsMailingListAnyone(r) == r.declined = 0

\* r.is_member === 0 && r.declined === 0
NeedsMailingList(r) == r.is_member = 0 /\ r.declined = 0

\* roster.map(...) of the handler
RosterStudent(r) ==
    [student_id |-> r.student_id, name |-> r.student_name,
     is_member |-> r.is_member = 1, declined |-> r.declined = 1,
     needs_mailing_list |-> NeedsMailingList(r),
     events_attended |-> r.events_attended]

RosterRequest(event) ==
    [kind |-> "roster", pc |-> "r_event", status |-> 0, code |-> "",
     input |-> [event |-> event], class_name |-> "", students |-> <<>>]

StartRoster(p, Events) ==
    /\ \E event \in Events : Accept(p, RosterRequest(event))
    /\ UNCHANGED StoreVars

\* getEventById
RosterGetEvent(p) ==
    LET r == req[p]
    IN  /\ r.kind = "roster" /\ r.pc = "r_event"
        /\ Set(p, IF ~EventExists(r.input.event) THEN Respond(r, 404, "NOT_FOUND")
                  ELSE [r EXCEPT !.pc = "r_roster",
                                 !.class_name =
                                     (CHOOSE e \in GetEventById(r.input.event) : TRUE).name])
        /\ UNCHANGED StoreVars

\* getRosterForClass and the response
RosterQuery(p) ==
    LET r == req[p]
        roster == GetRosterForClass(r.class_name)
    IN  /\ r.kind = "roster" /\ r.pc = "r_roster"
        /\ Set(p, Respond([r EXCEPT !.students =
                                        [k \in 1..Len(roster) |-> RosterStudent(roster[k])]],
                          200, "OK"))
        /\ UNCHANGED StoreVars

\* findNonMembers: the students of the list that no member row joins on
\* LOWER(s.name) = LOWER(m.name)
FindNonMembersExact(studentIds) ==
    LET NoMember(st) == st.id \in studentIds /\ MatchingMembersExact(st.name) = {}
        rows == SelectSeq(students, NoMember)
    IN  [k \in 1..Len(rows) |-> [student_id |-> rows[k].id, student_name |-> rows[k].name]]

FindNonMembers(studentIds) ==
    LET NoMember(st) == st.id \in studentIds /\ MatchingMembers(st.name) = {}
        rows == SelectSeq(students, NoMember)
    IN  [k \in 1..Len(rows) |-> [student_id |-> rows[k].id, student_name |-> rows[k].name]]

\* GET /api/members/non-members/:eventId
NonMembersRequest(event) ==
    [kind |-> "non_members", pc |-> "nm_event", status |-> 0, code |-> "",
     input |-> [event |-> event], student_ids |-> {}, data |-> <<>>]

StartNonMembers(p, Events) ==
    /\ \E event \in Events : Accept(p, NonMembersRequest(event))
    /\ UNCHANGED StoreVars

\* getEventById
NonMembersGetEvent(p) ==
    LET r == req[p]
    IN  /\ r.kind = "non_members" /\ r.pc = "nm_event"
        /\ Set(p, IF ~EventExists(r.input.event) THEN Respond(r, 404, "NOT_FOUND")
                  ELSE [r EXCEPT !.pc = "nm_attendance"])
        /\ UNCHANGED StoreVars

\* getEventWithAttendance and the student ids of its rows
NonMembersAttendance(p) ==
    LET r == req[p]
    IN  /\ r.kind = "non_members" /\ r.pc = "nm_attendance"
        /\ Set(p, IF ~EventExists(r.input.event) THEN Respond(r, 404, "NOT_FOUND")
                  ELSE [r EXCEPT !.pc = "nm_find",
                                 !.student_ids =
                                     {a.student_id : a \in AttendanceOf(r.input.event)}])
        /\ UNCHANGED StoreVars

\* findNonMembers and the response
NonMembersFind(p) ==
    LET r == req[p]
    IN  /\ r.kind = "non_members" /\ r.pc = "nm_find"
        /\ Set(p, Respond([r EXCEPT !.data = FindNonMembers(r.student_ids)], 200, "OK"))
        /\ UNCHANGED StoreVars

----------------------------------------------------------------------------
(* POST /api/events *)

Digits == {"0", "1", "2", "3", "4", "5", "6", "7", "8", "9"}

\* /^\d{4}-\d{2}-\d{2}$/.test(date)
IsDate(date) ==
    /\ Len(date) = 10
    /\ \A i \in {1, 2, 3, 4, 6, 7, 9, 10} : date[i] \in Digits
    /\ date[5] = "-" /\ date[8] = "-"

\* The characters of the event ids that requests name
EventIdText ==
    [id \in {"E0", "E1", "E2", "E3", "E4"} |-> <<"0", "0", "0", "0", "0", "0", "E">>]
    @@ [id \in {"e4"} |-> <<"0", "0", "0", "0", "0", "0", "e", "4">>]
    @@ [id \in {"E"} |-> <<"E">>]
    @@ [id \in {"G4"} |-> <<"0", "0", "0", "0", "0", "0", "G", "4">>]
    @@ [id \in {"E44"} |-> <<"0", "0", "0", "0", "0", "0", "0", "E", "4">>]

\* The last character of E0 .. E4
EventIdDigit == [id \in {"E0", "E1", "E2", "E3", "E4"} |->
                    CASE id = "E0" -> "0" [] id = "E1" -> "1" [] id = "E2" -> "2"
                      [] id = "E3" -> "3" [] OTHER -> "4"]

EventIdChars(id) ==
    IF id \in DOMAIN EventIdDigit THEN Append(EventIdText[id], EventIdDigit[id])
    ELSE EventIdText[id]

IsValidEventIdAnyCase(id) ==
    /\ Len(EventIdChars(id)) = 8
    /\ \A i \in 1..8 :
           EventIdChars(id)[i] \in Digits \cup {"A", "B", "C", "D", "E", "F", "e"}

\* isValidEventId: /^[0-9A-F]{8}$/.test(id)
IsValidEventId(id) ==
    /\ Len(EventIdChars(id)) = 8
    /\ \A i \in 1..8 : EventIdChars(id)[i] \in Digits \cup {"A", "B", "C", "D", "E", "F"}

EventViolationNoKey(row) ==
    IF row.type \notin {"face_to_face", "online"} THEN "CHECK" ELSE "none"

\* INSERT INTO events: CHECK(type ...), then PRIMARY KEY (id)
EventViolation(row) ==
    IF row.type \notin {"face_to_face", "online"} THEN "CHECK"
    ELSE IF \E e \in events : e.id = row.id THEN "UNIQUE"
    ELSE "none"

\* `generated` is what generateEventId() returns if it is called
EventCreateRequest(body, generated) ==
    [kind |-> "event_create", pc |-> "e_check", status |-> 0, code |-> "",
     input |-> [body |-> body, generated |-> generated], id |-> "",
     rejected |-> "none"]

StartEventCreate(p, Inputs) ==
    /\ \E in \in Inputs : Accept(p, EventCreateRequest(in.body, in.generated))
    /\ UNCHANGED StoreVars

\* The row is written before the date is checked
EventCreateCheckAfterInsert(p) ==
    LET r == req[p]
        body == r.input.body
        id == IF Has(body, "id") THEN body.id ELSE r.input.generated
    IN  /\ r.kind = "event_create" /\ r.pc = "e_check"
        /\ Set(p, Respond(r, 400, "BAD_REQUEST"))
        /\ events' = events \cup {[id |-> id, name |-> "", date |-> <<>>,
                                   type |-> "face_to_face"]}
        /\ UNCHANGED <<members, students, attendance, attSeq, mailing_list, ocr_jobs, blobs>>

\* the checks on name, date and id, then getEventById
EventCreateCheck(p) ==
    LET r == req[p]
        body == r.input.body
        id == IF Has(body, "id") THEN body.id ELSE r.input.generated
    IN  /\ r.kind = "event_create" /\ r.pc = "e_check"
        /\ Set(p, IF ~Has(body, "name") \/ body.name = "" THEN Respond(r, 400, "BAD_REQUEST")
                  ELSE IF ~Truthy(body, "date") THEN Respond(r, 400, "BAD_REQUEST")
                  ELSE IF ~IsDate(body.date) THEN Respond(r, 400, "BAD_REQUEST")
                  ELSE IF ~IsValidEventId(id) THEN Respond(r, 400, "BAD_REQUEST")
                  ELSE IF EventExists(id) THEN Respond([r EXCEPT !.id = id], 409, "CONFLICT")
                  ELSE [r EXCEPT !.pc = "e_insert", !.id = id])
        /\ UNCHANGED StoreVars

\* insertEvent; a rejected INSERT throws to app.onError
EventCreateInsert(p) ==
    LET r == req[p]
        body == r.input.body
        row == [id |-> r.id, name |-> body.name, date |-> body.date,
                type |-> IF Has(body, "type") THEN body.type ELSE "face_to_face"]
        violation == EventViolation(row)
    IN  /\ r.kind = "event_create" /\ r.pc = "e_insert"
        /\ IF violation = "none"
           THEN /\ events' = events \cup {row}
                /\ Set(p, Respond(r, 201, "CREATED"))
           ELSE /\ UNCHANGED events
                /\ Set(p, Respond([r EXCEPT !.rejected = violation], 500, "INTERNAL_ERROR"))
        /\ UNCHANGED <<members, students, attendance, attSeq, mailing_list, ocr_jobs, blobs>>

----------------------------------------------------------------------------
(* index.ts and authMiddleware: the routes and what guards them *)

\* c.env.API_KEY
API_KEY == <<"k">>

Bearer == <<"B", "e", "a", "r", "e", "r", " ">>

StartsWith(s, prefix) ==
    Len(s) >= Len(prefix) /\ SubSeq(s, 1, Len(prefix)) = prefix

Slice(s, n) == SubSeq(s, n + 1, Len(s))

\* The key that authMiddleware takes from the headers, {} if it takes none
KeyOf(headers) ==
    IF Has(headers, "authorization") /\ StartsWith(headers.authorization, Bearer)
    THEN {Slice(headers.authorization, 7)}
    ELSE IF Truthy(headers, "x_api_key") THEN {headers.x_api_key}
    ELSE {}

\* !(!key || key !== c.env.API_KEY)
Authorized(headers) == \E key \in KeyOf(headers) : key # <<>> /\ key = API_KEY

\* A request to /api/...: the route, the headers, and the request that the
\* route's handler is given once the middlewares have let it through
ApiRequest(route, headers, inner) ==
    [kind |-> "api", pc |-> "pragma", status |-> 0, code |-> "",
     route |-> route, headers |-> headers, inner |-> inner]

StartApi(p, Inputs) ==
    /\ \E in \in Inputs : Accept(p, ApiRequest(in.route, in.headers, in.inner))
    /\ UNCHANGED StoreVars

\* app.use('/api/*'): PRAGMA foreign_keys = ON; then the health check, which
\* is registered before authMiddleware
Pragma(p) ==
    LET r == req[p]
    IN  /\ r.kind = "api" /\ r.pc = "pragma"
        /\ Set(p, IF r.route = "/api/health" THEN Respond(r, 200, "OK")
                  ELSE [r EXCEPT !.pc = "auth"])
        /\ UNCHANGED StoreVars

\* authMiddleware: throw unauthorized(), or next() into the route's handler
AuthMiddleware(p) ==
    LET r == req[p]
    IN  /\ r.kind = "api" /\ r.pc = "auth"
        /\ Set(p, IF ~Authorized(r.headers) THEN Respond(r, 401, "UNAUTHORIZED")
                  ELSE r.inner @@ [route |-> r.route, headers |-> r.headers])
        /\ UNCHANGED StoreVars

\* GET /photos/<key>
ServeRequest(headers, key) ==
    [kind |-> "serve", pc |-> "get", status |-> 0, code |-> "",
     route |-> "/photos/*", headers |-> headers, key |-> key, read |-> {}]

StartServe(p, Headers, Keys) ==
    /\ \E headers \in Headers, key \in Keys : Accept(p, ServeRequest(headers, key))
    /\ UNCHANGED StoreVars

\* The handler of GET /photos/*: PHOTOS.get(key) and the response
ServePhoto(p) ==
    LET r == req[p]
    IN  /\ r.kind = "serve" /\ r.pc = "get"
        /\ Set(p, IF r.key = <<>> THEN Respond(r, 400, "BAD_REQUEST")
                  ELSE IF r.key \notin blobs THEN Respond(r, 404, "NOT_FOUND")
                  ELSE Respond([r EXCEPT !.read = {r.key}], 200, "OK"))
        /\ UNCHANGED StoreVars

----------------------------------------------------------------------------
(* POST /api/students and POST /api/mailing-list *)

\* REFERENCES events(id) with foreign_keys = ON: a non-null id must have a row
ForeignKeyViolation(eventId) ==
    IF eventId # NULL /\ ~EventExists(eventId) THEN "FOREIGN KEY" ELSE "none"

StudentCreateRequest(body) ==
    [kind |-> "student_create", pc |-> "st_insert", status |-> 0, code |-> "",
     input |-> [body |-> body], rejected |-> "none"]

StartStudentCreate(p, Bodies) ==
    /\ Len(students) < MaxStudents
    /\ \E body \in Bodies : Accept(p, StudentCreateRequest(body))
    /\ UNCHANGED StoreVars

\* if (!body.name) throw badRequest; insertStudent
StudentCreate(p) ==
    LET r == req[p]
        body == r.input.body
        violation == ForeignKeyViolation(OrNull(body, "first_event_id"))
    IN  /\ r.kind = "student_create" /\ r.pc = "st_insert"
        /\ IF ~Truthy(body, "name")
           THEN /\ UNCHANGED students
                /\ Set(p, Respond(r, 400, "BAD_REQUEST"))
           ELSE IF violation # "none"
           THEN /\ UNCHANGED students
                /\ Set(p, Respond([r EXCEPT !.rejected = violation], 500, "INTERNAL_ERROR"))
           ELSE /\ students' = Append(students,
                                      NewStudent(body.name, OrNull(body, "first_event_id")))
                /\ Set(p, Respond(r, 201, "CREATED"))
        /\ UNCHANGED <<events, members, attendance, attSeq, mailing_list, ocr_jobs, blobs>>

MailAddRequest(body) ==
    [kind |-> "mail_add", pc |-> "ml_check", status |-> 0, code |-> "",
     input |-> [body |-> body], rejected |-> "none"]

StartMailAdd(p, Bodies) ==
    /\ \E body \in Bodies : Accept(p, MailAddRequest(body))
    /\ UNCHANGED StoreVars

\* the checks on name and email, then getMailingListByEmail(body.email)
MailAddCheck(p) ==
    LET r == req[p]
        body == r.input.body
    IN  /\ r.kind = "mail_add" /\ r.pc = "ml_check"
        /\ Set(p, IF ~Truthy(body, "name") THEN Respond(r, 400, "BAD_REQUEST")
                  ELSE IF ~Truthy(body, "email") THEN Respond(r, 400, "BAD_REQUEST")
                  ELSE IF GetMailingListByEmail(body.email) # {}
                       THEN Respond(r, 409, "CONFLICT")
                  ELSE [r EXCEPT !.pc = "ml_add"])
        /\ UNCHANGED StoreVars

\* addMailingListEntry with the name and the email as they were sent
MailAddInsert(p) ==
    LET r == req[p]
        body == r.input.body
        row == [id |-> Len(mailing_list) + 1, name |-> body.name,
                email |-> body.email, event_id |-> OrNull(body, "event_id")]
        violation == IF MailingListViolation(row) # "none" THEN MailingListViolation(row)
                     ELSE ForeignKeyViolation(row.event_id)
    IN  /\ r.kind = "mail_add" /\ r.pc = "ml_add"
        /\ IF violation # "none"
           THEN /\ UNCHANGED mailing_list
                /\ Set(p, Respond([r EXCEPT !.rejected = violation], 500, "INTERNAL_ERROR"))
           ELSE /\ mailing_list' = Append(mailing_list, row)
                /\ Set(p, Respond(r, 201, "CREATED"))
        /\ UNCHANGED <<events, members, students, attendance, attSeq, ocr_jobs, blobs>>

----------------------------------------------------------------------------
(* Inputs *)

\* All lists of at most n elements of S
Lists(S, n) == UNION {[1..k -> S] : k \in 0..n}

Date1 == <<"2", "0", "2", "6", "-", "0", "1", "-", "0", "6">>
Date2 == <<"2", "0", "2", "6", "-", "0", "1", "-", "1", "3">>

\* Two occurrences of one class and one occurrence of another
ExistingEvents ==
    {[id |-> "E1", name |-> "Tuesday Beginner", date |-> Date1, type |-> "face_to_face"],
     [id |-> "E2", name |-> "Tuesday Beginner", date |-> Date2, type |-> "face_to_face"],
     [id |-> "E3", name |-> "Wednesday Open", date |-> Date1, type |-> "online"]}

EventIds == {e.id : e \in ExistingEvents} \cup {"E0"}

\* Reviewed attendance entries: a plain one, one to trim, one in another case,
\* a blank name, a missing name, and a seat outside the seat domain
ConfirmAttendanceEntries ==
    { [student_name |-> <<"A">>, table_number |-> "1", seat |-> "N"],
      [student_name |-> <<" ", "A">>, seat |-> "S"],
      [student_name |-> <<"a">>],
      [student_name |-> <<" ">>, seat |-> "N"],
      [seat |-> "N"],
      [student_name |-> <<"a">>, seat |-> "X"] }

\* Reviewed signups: emails equal after trimming and lower-casing, another
\* email, a blank name and a missing email
ConfirmMailingEntries ==
    { [name |-> <<"A">>, email |-> <<"x">>],
      [name |-> <<"B", " ">>, email |-> <<" ", "X">>],
      [name |-> <<"A">>, email |-> <<"y">>],
      [name |-> <<" ">>, email |-> <<"x">>],
      [name |-> <<"B">>] }

ConfirmBodies ==
    { [attendance |-> a, mailing_list |-> m] :
        a \in Lists(ConfirmAttendanceEntries, MaxEntries),
        m \in Lists(ConfirmMailingEntries, MaxEntries) }

\* Bodies of sequential runs: at most MaxEntries entries in all
\* Bodies with entries in one of the two lists
AttendanceBodies == {b \in ConfirmBodies : b.mailing_list = <<>>}
MailingBodies == {b \in ConfirmBodies : b.attendance = <<>>}

AttendBodies ==
    { [student_name |-> <<"A">>, seat |-> "E"],
      [student_name |-> <<"a">>, table_number |-> "2"],
      [student_name |-> <<"A">>, seat |-> "X"],
      [seat |-> "N"] }

\* Manual records of sequential runs
FewAttendBodies ==
    { [student_name |-> <<"A">>, seat |-> "E"],
      [student_name |-> <<"A">>, seat |-> "X"] }

----------------------------------------------------------------------------
(* Sequential runs: one worker, one request at a time *)

InitStore ==
    /\ events = ExistingEvents
    /\ members = <<>>
    /\ students = <<>>
    /\ attendance = {}
    /\ attSeq = 0
    /\ mailing_list = <<>>
    /\ ocr_jobs = <<>>
    /\ blobs = {}

InitSeq ==
    /\ InitStore
    /\ req = [p \in {1} |-> Idle]

NextSeq ==
    \/ StartConfirm(1, {"E1", "E0"}, AttendanceBodies)
    \/ RepeatConfirm(1)
    \/ StartAttend(1, {"E2"}, FewAttendBodies)
    \/ ConfirmGetEvent(1)
    \/ ResolveLookup(1)
    \/ ResolveInsert(1)
    \/ ConfirmCheck(1)
    \/ ConfirmRecord(1)
    \/ AttendGetEvent(1)
    \/ AttendRecord(1)

SpecSeq == InitSeq /\ [][NextSeq]_vars

----------------------------------------------------------------------------
(* Concurrent runs: NumWorkers requests in flight, interleaved between awaits *)

WorkerIds == {1, 2}

\* Bodies of concurrent confirm calls: one student, and the same student
\* trimmed followed by another one
RaceConfirmBodies ==
    { [attendance |-> <<[student_name |-> <<"A">>, table_number |-> "1", seat |-> "N"]>>,
       mailing_list |-> <<>>],
      [attendance |-> <<[student_name |-> <<" ", "A">>, seat |-> "S"],
                        [student_name |-> <<"a">>]>>,
       mailing_list |-> <<>>] }

RaceAttendBodies == { [student_name |-> <<"A">>, seat |-> "E"] }

RaceBatchBodies ==
    { [records |-> <<[student_name |-> <<"A">>, seat |-> "W"],
                     [student_name |-> <<"a">>]>>] }

Init ==
    /\ InitStore
    /\ req = [p \in WorkerIds |-> Idle]

Next ==
    \E p \in WorkerIds :
        \/ StartConfirm(p, {"E1"}, RaceConfirmBodies)
        \/ StartAttend(p, {"E1"}, RaceAttendBodies)
        \/ StartBatch(p, {"E1"}, RaceBatchBodies)
        \/ StartDelete(p, {"E1"}, {1})
        \/ ConfirmGetEvent(p)
        \/ ResolveLookup(p)
        \/ ResolveInsert(p)
        \/ ConfirmCheck(p)
        \/ ConfirmRecord(p)
        \/ AttendGetEvent(p)
        \/ AttendRecord(p)
        \/ BatchGetEvent(p)
        \/ BatchRecord(p)
        \/ DeleteAttendance(p)

Spec == Init /\ [][Next]_vars

\* Concurrent confirm calls that carry signups only
NextMail ==
    \E p \in WorkerIds :
        \/ StartConfirm(p, {"E1"}, MailingBodies)
        \/ ConfirmGetEvent(p)
        \/ ConfirmMailCheck(p)
        \/ ConfirmMailAdd(p)

SpecMail == Init /\ [][NextMail]_vars

Jpeg(size) == {[type |-> "image/jpeg", size |-> size]}

\* Scans: a good one, and one failing each check of the handler in turn
ScanInputs ==
    {[event |-> "E1", api_key |-> TRUE, photo |-> Jpeg(1)],
     [event |-> "E0", api_key |-> TRUE, photo |-> Jpeg(1)],
     [event |-> "E1", api_key |-> FALSE, photo |-> Jpeg(1)],
     [event |-> "E1", api_key |-> TRUE, photo |-> {}],
     [event |-> "E1", api_key |-> TRUE,
      photo |-> {[type |-> "text/plain", size |-> 1]}],
     [event |-> "E1", api_key |-> TRUE, photo |-> Jpeg(MAX_SIZE + 1)]}

\* Plain uploads: a sheet, a table photo, and one failing each check in turn
PhotoInputs ==
    {[event |-> "E1", photo |-> Jpeg(1), type |-> "attendance-sheet", table_number |-> NULL],
     [event |-> "E1", photo |-> Jpeg(1), type |-> "table-photo", table_number |-> "1"],
     [event |-> "E0", photo |-> Jpeg(1), type |-> "attendance-sheet", table_number |-> NULL],
     [event |-> "E1", photo |-> {}, type |-> "attendance-sheet", table_number |-> NULL],
     [event |-> "E1", photo |-> Jpeg(1), type |-> "other", table_number |-> NULL],
     [event |-> "E1", photo |-> Jpeg(1), type |-> "table-photo", table_number |-> NULL]}

\* Replies of the vision API
VisionReplies ==
    {[rejects |-> FALSE, ok |-> FALSE, text |-> NULL],
     [rejects |-> FALSE, ok |-> TRUE, text |-> NULL],
     [rejects |-> FALSE, ok |-> TRUE, text |-> "not json"],
     [rejects |-> FALSE, ok |-> TRUE, text |-> "json null"],
     [rejects |-> FALSE, ok |-> TRUE, text |-> "{attendance:[],mailing_list:[]}"],
     [rejects |-> TRUE, ok |-> FALSE, text |-> NULL]}

NextScan ==
    \E p \in WorkerIds :
        \/ StartScan(p, ScanInputs)
        \/ ScanGetEvent(p)
        \/ ScanPut(p)
        \/ ScanInsertJob(p)
        \/ ScanProcessing(p)
        \/ ScanVision(p, VisionReplies)
        \/ ScanComplete(p)
        \/ ScanFailed(p)
        \/ StartPhoto(p, PhotoInputs)
        \/ PhotoGetEvent(p)
        \/ PhotoPut(p)
        \/ PhotoInsert(p)

SpecScan == Init /\ [][NextScan]_vars

\* Attendance entries of a parsed reply: two good ones, a blank name, a
\* missing name, a null name, a number for a name, null, and a number
RawAttendanceEntries ==
    {JObj([name |-> JStr(<<"A">>), seat |-> JStr(<<"n", "o", "r", "t", "h">>),
           table_number |-> JNum("1")]),
     JObj([name |-> JStr(<<" ", "B", " ">>), table_number |-> JStr(<<"2">>),
           is_checked |-> JBool(TRUE), confidence |-> JNum("0.9")]),
     JObj([name |-> JStr(<<" ">>)]),
     JObj([seat |-> JStr(<<"N">>)]),
     JObj([name |-> JNull]),
     JObj([name |-> JNum("5")]),
     JNull,
     JNum("7")}

\* Signups of a parsed reply: two good ones, a missing email, a missing name,
\* a blank email, a number for an email, and null
RawMailingEntries ==
    {JObj([name |-> JStr(<<"A">>), email |-> JStr(<<" ", "X", " ">>)]),
     JObj([name |-> JStr(<<" ", "B">>), email |-> JStr(<<"y">>)]),
     JObj([name |-> JStr(<<"A">>)]),
     JObj([email |-> JStr(<<"x">>)]),
     JObj([name |-> JStr(<<"A">>), email |-> JStr(<<" ">>)]),
     JObj([name |-> JStr(<<"A">>), email |-> JNum("5")]),
     JNull}

\* What a list field may hold instead of an array
NotArrays == {JNull, JNum("3"), JStr(<<"x">>), JObj([name |-> JStr(<<"A">>)])}

RawResults ==
    {JNull, JNum("3"), JStr(<<"x">>), JBool(TRUE), JArr(<<>>),
     JObj([notes |-> JStr(<<"x">>)]),
     JObj([form_type |-> JStr(<<"r", "o", "s", "t", "e", "r">>), confidence |-> JNum("0.9"),
           attendance |-> JArr(<<>>), mailing_list |-> JArr(<<>>)])}
    \cup {JObj([attendance |-> JArr(l)]) : l \in Lists(RawAttendanceEntries, MaxEntries)}
    \cup {JObj([mailing_list |-> JArr(l)]) : l \in Lists(RawMailingEntries, MaxEntries)}
    \cup {JObj([attendance |-> v]) : v \in NotArrays}
    \cup {JObj([mailing_list |-> v, attendance |-> JArr(<<>>)]) : v \in NotArrays}

SeatStrings ==
    {<<>>, <<" ">>, <<"N">>, <<"n">>, <<"S">>, <<"s">>, <<"E">>, <<"e">>, <<"W">>, <<"w">>,
     <<"N", "O", "R", "T", "H">>, <<"n", "o", "r", "t", "h">>, <<"N", "o", "r", "t", "h">>,
     <<"S", "O", "U", "T", "H">>, <<"s", "o", "u", "t", "h">>,
     <<"E", "A", "S", "T">>, <<"e", "a", "s", "t">>, <<"E", "a", "s", "t">>,
     <<"W", "E", "S", "T">>, <<"w", "e", "s", "t">>,
     <<" ", "n">>, <<"N", " ">>, <<"n", "o", "r", "t", "h", " ">>,
     <<"u", "p">>, <<"n", "n">>, <<"n", "o", "r", "t", "h", "s">>, <<"n", "o", "r">>,
     <<"X">>}

SeatValues ==
    {JUndefined, JNull, JNum("123"), JBool(TRUE), JArr(<<>>)}
    \cup {JStr(s) : s \in SeatStrings}

\* The normalizer applied to one parsed reply, or to one seat, at a time
NextNorm ==
    \/ StartValidate(1, RawResults)
    \/ ValidateCall(1)
    \/ StartSeat(1, SeatValues)
    \/ NormalizeSeatCall(1)

SpecNorm == InitSeq /\ [][NextNorm]_vars

\* Parsed replies with every field set, in and out of canonical form
FullResults ==
    {JObj([qr_data |-> JObj([event_id |-> JStr(<<"E", "1">>)]),
           form_type |-> JStr(<<"R", "o", "s", "t", "e", "r">>),
           attendance |-> JArr(<<JObj([name |-> JStr(<<" ", "A">>),
                                       seat |-> JStr(<<" ", "w", "e", "s", "t">>),
                                       table_number |-> JStr(<<"2">>),
                                       is_checked |-> JStr(<<"x">>),
                                       confidence |-> JStr(<<"1">>)]),
                                 JObj([name |-> JStr(<<"B">>), seat |-> JStr(<<"X">>),
                                       table_number |-> JNum("1"),
                                       is_checked |-> JBool(FALSE)])>>),
           mailing_list |-> JArr(<<JObj([name |-> JStr(<<"A", " ">>),
                                         email |-> JStr(<<"X", " ">>),
                                         confidence |-> JNum("0.9")])>>),
           confidence |-> JStr(<<"1">>),
           notes |-> JNum("3")]),
     JObj([qr_data |-> JNull, form_type |-> JStr(<<"b", "l", "a", "n", "k">>),
           attendance |-> JArr(<<JObj([name |-> JStr(<<"A">>), seat |-> JStr(<<"e">>)])>>),
           mailing_list |-> JArr(<<>>), notes |-> JStr(<<" ", "x">>)])}

\* The normalizer applied to a parsed reply and then to its own result
NextIdem ==
    \/ StartValidate(1, RawResults \cup FullResults)
    \/ ValidateCall(1)
    \/ StartRevalidate(1)
    \/ RevalidateCall(1)

SpecIdem == InitSeq /\ [][NextIdem]_vars

\* Members to add: one matching the students A and a, a declined one with
\* the same name, one matching nobody, one without email
MemberBodies ==
    {[name |-> <<"a">>, email |-> <<"X">>],
     [name |-> <<"A", " ">>, email |-> <<"y">>, declined |-> TRUE],
     [name |-> <<"B">>, email |-> <<"x">>],
     [name |-> <<"a">>]}

RosterAttendBodies == {[student_name |-> <<"A">>], [student_name |-> <<"a">>]}

\* Attendance, members and roster queries, one request at a time
NextRoster ==
    \/ StartAttend(1, {"E1", "E2", "E3"}, RosterAttendBodies)
    \/ AttendGetEvent(1)
    \/ ResolveLookup(1)
    \/ ResolveInsert(1)
    \/ AttendRecord(1)
    \/ StartMemberAdd(1, MemberBodies)
    \/ MemberAddCheck(1)
    \/ MemberAddInsert(1)
    \/ StartMemberDelete(1, {1, 2})
    \/ MemberDelete(1)
    \/ StartMemberPatch(1, {1}, {[declined |-> TRUE], [declined |-> FALSE]})
    \/ MemberPatchGet(1)
    \/ MemberPatchUpdate(1)
    \/ StartRoster(1, {"E1", "E3", "E0"})
    \/ RosterGetEvent(1)
    \/ RosterQuery(1)

SpecRoster == InitSeq /\ [][NextRoster]_vars

----------------------------------------------------------------------------
(* Rejected requests: every route that names an event, and event creation *)

\* Reviewed results: a good one, and one failing each check of the body
ErrConfirmBodies ==
    { [attendance |-> <<[student_name |-> <<"A">>, seat |-> "N"]>>,
       mailing_list |-> <<[name |-> <<"A">>, email |-> <<"x">>]>>],
      [mailing_list |-> <<[name |-> <<"A">>, email |-> <<"x">>]>>],
      [attendance |-> <<[student_name |-> <<"A">>, seat |-> "N"]>>] }

\* Manual records: a good one, a missing name, an empty name, a bad seat
ErrAttendBodies ==
    { [student_name |-> <<"B">>, seat |-> "E"],
      [seat |-> "N"],
      [student_name |-> <<>>, seat |-> "N"],
      [student_name |-> <<"B">>, seat |-> "X"] }

ErrBatchBodies ==
    { [records |-> <<[student_name |-> <<"B">>, seat |-> "W"]>>],
      [records |-> <<>>] }

ErrScanInputs ==
    {[event |-> "E1", api_key |-> TRUE, photo |-> Jpeg(1)],
     [event |-> "E0", api_key |-> TRUE, photo |-> Jpeg(1)]}

ErrVisionReplies ==
    {[rejects |-> FALSE, ok |-> TRUE, text |-> "{attendance:[],mailing_list:[]}"],
     [rejects |-> TRUE, ok |-> FALSE, text |-> NULL]}

BadDate == <<"2", "0", "2", "6", "-", "1", "-", "6">>

\* New events: a generated id, given ids (new, taken, malformed), a missing
\* name, a missing, empty and malformed date, and an unknown type
EventInputs ==
    {[body |-> [name |-> "Thursday Open", date |-> Date1], generated |-> "E0"],
     [body |-> [name |-> "Thursday Open", date |-> Date1], generated |-> "E1"],
     [body |-> [name |-> "Tuesday Beginner", date |-> Date2, id |-> "E4"], generated |-> "E0"],
     [body |-> [name |-> "Tuesday Beginner", date |-> Date2, id |-> "E1"], generated |-> "E0"],
     [body |-> [name |-> "Tuesday Beginner", date |-> Date2, id |-> "e4"], generated |-> "E0"],
     [body |-> [name |-> "Tuesday Beginner", date |-> Date2, id |-> "E44"], generated |-> "E0"],
     [body |-> [name |-> "Tuesday Beginner", date |-> Date2, id |-> "G4"], generated |-> "E0"],
     [body |-> [name |-> "Tuesday Beginner", date |-> Date2, id |-> "E"], generated |-> "E0"],
     [body |-> [date |-> Date1, id |-> "E4"], generated |-> "E0"],
     [body |-> [name |-> "", date |-> Date1, id |-> "E4"], generated |-> "E0"],
     [body |-> [name |-> "Thursday Open", id |-> "E4"], generated |-> "E0"],
     [body |-> [name |-> "Thursday Open", date |-> <<>>, id |-> "E4"], generated |-> "E0"],
     [body |-> [name |-> "Thursday Open", date |-> BadDate, id |-> "E4"], generated |-> "E0"],
     [body |-> [name |-> "Thursday Open", date |-> Date1, id |-> "E4", type |-> "hybrid"],
      generated |-> "E0"]}

NextErr ==
    \/ StartConfirm(1, {"E1", "E0"}, ErrConfirmBodies)
    \/ ConfirmGetEvent(1)
    \/ ResolveLookup(1)
    \/ ResolveInsert(1)
    \/ ConfirmCheck(1)
    \/ ConfirmRecord(1)
    \/ ConfirmMailCheck(1)
    \/ ConfirmMailAdd(1)
    \/ StartAttend(1, {"E1", "E0"}, ErrAttendBodies)
    \/ AttendGetEvent(1)
    \/ AttendRecord(1)
    \/ StartBatch(1, {"E1", "E0"}, ErrBatchBodies)
    \/ BatchGetEvent(1)
    \/ BatchRecord(1)
    \/ StartScan(1, ErrScanInputs)
    \/ ScanGetEvent(1)
    \/ ScanPut(1)
    \/ ScanInsertJob(1)
    \/ ScanProcessing(1)
    \/ ScanVision(1, ErrVisionReplies)
    \/ ScanComplete(1)
    \/ ScanFailed(1)
    \/ StartRoster(1, {"E1", "E0"})
    \/ RosterGetEvent(1)
    \/ RosterQuery(1)
    \/ StartEventCreate(1, EventInputs)
    \/ EventCreateCheck(1)
    \/ EventCreateInsert(1)

SpecErr == InitSeq /\ [][NextErr]_vars

----------------------------------------------------------------------------
(* Requests with and without the API key *)

\* Headers: none, the key as Bearer token or as X-API-Key, a wrong key in
\* either, an empty Bearer token, another scheme, a wrong Bearer token beside
\* the right X-API-Key
HeaderSets ==
    { [none |-> TRUE],
      [authorization |-> Bearer \o API_KEY],
      [x_api_key |-> API_KEY],
      [authorization |-> Bearer \o <<"x">>],
      [x_api_key |-> <<"x">>],
      [authorization |-> Bearer],
      [authorization |-> <<"B", "a", "s", "i", "c", " ">> \o API_KEY],
      [authorization |-> Bearer \o <<"x">>, x_api_key |-> API_KEY] }

\* The routes under /api that the requests call, with what their handlers get
ApiInputs ==
    { [route |-> route, headers |-> headers, inner |-> Idle] :
        route \in {"/api/health"}, headers \in HeaderSets }
    \cup
    { [route |-> "/api/events/:id/attendance", headers |-> headers,
       inner |-> AttendRequest("E1", [student_name |-> <<"A">>, seat |-> "E"])] :
        headers \in HeaderSets }
    \cup
    { [route |-> "/api/events/:id/photos", headers |-> headers,
       inner |-> PhotoRequest("E1", Jpeg(1), "attendance-sheet", NULL)] :
        headers \in HeaderSets }

ServeKeys == {<<>>, <<"E1", "attendance-sheet", 1>>, <<"E0", "attendance-sheet", 1>>}

NextAuth ==
    \/ StartApi(1, ApiInputs)
    \/ Pragma(1)
    \/ AuthMiddleware(1)
    \/ AttendGetEvent(1)
    \/ ResolveLookup(1)
    \/ ResolveInsert(1)
    \/ AttendRecord(1)
    \/ PhotoGetEvent(1)
    \/ PhotoPut(1)
    \/ PhotoInsert(1)
    \/ StartServe(1, HeaderSets, ServeKeys)
    \/ ServePhoto(1)

SpecAuth == InitSeq /\ [][NextAuth]_vars

----------------------------------------------------------------------------
(* Every operation that writes, one request at a time *)

AllConfirmBodies ==
    { [attendance |-> <<[student_name |-> <<"A">>, seat |-> "N"]>>,
       mailing_list |-> <<[name |-> <<"A">>, email |-> <<"x">>]>>],
      [attendance |-> <<[student_name |-> <<" ", "a">>, seat |-> "X"]>>,
       mailing_list |-> <<>>] }

AllAttendBodies == { [student_name |-> <<"A">>, seat |-> "E"] }

AllBatchBodies == { [records |-> <<[student_name |-> <<"a">>, seat |-> "W"]>>] }

AllScanInputs == {[event |-> "E1", api_key |-> TRUE, photo |-> Jpeg(1)]}

StudentBodies == { [name |-> <<"A">>, first_event_id |-> "E1"], [email |-> <<"x">>] }

MailBodies == { [name |-> <<"B">>, email |-> <<"X">>], [name |-> <<"B">>] }

NextAll ==
    \/ StartConfirm(1, {"E1"}, AllConfirmBodies)
    \/ ConfirmGetEvent(1)
    \/ ResolveLookup(1)
    \/ ResolveInsert(1)
    \/ ConfirmCheck(1)
    \/ ConfirmRecord(1)
    \/ ConfirmMailCheck(1)
    \/ ConfirmMailAdd(1)
    \/ StartAttend(1, {"E1"}, AllAttendBodies)
    \/ AttendGetEvent(1)
    \/ AttendRecord(1)
    \/ StartBatch(1, {"E1"}, AllBatchBodies)
    \/ BatchGetEvent(1)
    \/ BatchRecord(1)
    \/ StartDelete(1, {"E1"}, {1})
    \/ DeleteAttendance(1)
    \/ StartScan(1, AllScanInputs)
    \/ ScanGetEvent(1)
    \/ ScanPut(1)
    \/ ScanInsertJob(1)
    \/ ScanProcessing(1)
    \/ ScanVision(1, ErrVisionReplies)
    \/ ScanComplete(1)
    \/ ScanFailed(1)
    \/ StartMemberAdd(1, {[name |-> <<"a">>, email |-> <<"X">>]})
    \/ MemberAddCheck(1)
    \/ MemberAddInsert(1)
    \/ StartMemberDelete(1, {1})
    \/ MemberDelete(1)
    \/ StartMailAdd(1, MailBodies)
    \/ MailAddCheck(1)
    \/ MailAddInsert(1)
    \/ StartStudentCreate(1, StudentBodies)
    \/ StudentCreate(1)

SpecAll == InitSeq /\ [][NextAll]_vars

----------------------------------------------------------------------------
(* Seats sent to the three endpoints that record attendance *)

\* A seat of the domain, and ones outside it: another letter, lower case, a
\* word, the empty string
SeatInputs == {"N", "W", "X", "n", "North", ""}

\* An entry for each seat, and one with no seat
SeatEntries(name) ==
    {[student_name |-> name, seat |-> seat] : seat \in SeatInputs}
    \cup {[student_name |-> name]}

NextSeats ==
    \/ StartConfirm(1, {"E1"}, {[attendance |-> <<e>>, mailing_list |-> <<>>] :
                                    e \in SeatEntries(<<"A">>)})
    \/ ConfirmGetEvent(1)
    \/ ResolveLookup(1)
    \/ ResolveInsert(1)
    \/ ConfirmCheck(1)
    \/ ConfirmRecord(1)
    \/ StartAttend(1, {"E1"}, SeatEntries(<<"B">>))
    \/ AttendGetEvent(1)
    \/ AttendRecord(1)
    \/ StartBatch(1, {"E1"}, {[records |-> <<e>>] : e \in SeatEntries(<<"C">>)})
    \/ BatchGetEvent(1)
    \/ BatchRecord(1)

SpecSeats == InitSeq /\ [][NextSeats]_vars

----------------------------------------------------------------------------
(* Names that differ in letter case *)

\* One reviewed name, in upper or in lower case, with or without a space to trim
CaseConfirmBodies ==
    { [attendance |-> <<[student_name |-> name]>>, mailing_list |-> <<>>] :
        name \in {<<"A">>, <<"a">>, <<"a", " ">>} }

CaseMemberBodies ==
    { [name |-> <<"A">>, email |-> <<"x">>], [name |-> <<"b">>, email |-> <<"y">>] }

NextCase ==
    \/ StartConfirm(1, {"E1"}, CaseConfirmBodies)
    \/ ConfirmGetEvent(1)
    \/ ResolveLookup(1)
    \/ ResolveInsert(1)
    \/ ConfirmCheck(1)
    \/ ConfirmRecord(1)
    \/ StartMemberAdd(1, CaseMemberBodies)
    \/ MemberAddCheck(1)
    \/ MemberAddInsert(1)
    \/ StartMemberDelete(1, {1, 2})
    \/ MemberDelete(1)
    \/ StartRoster(1, {"E1"})
    \/ RosterGetEvent(1)
    \/ RosterQuery(1)
    \/ StartNonMembers(1, {"E1", "E0"})
    \/ NonMembersGetEvent(1)
    \/ NonMembersAttendance(1)
    \/ NonMembersFind(1)

SpecCase == InitSeq /\ [][NextCase]_vars

----------------------------------------------------------------------------
(* Confirm calls with both lists, one after another *)

\* Reviewed results: names to skip (blank, missing) beside named ones, names
\* to trim, a seat the store rejects in first, second and last place, signups
\* to skip, and two signups with the same address
ReviewBodies ==
    { [attendance |-> <<[student_name |-> <<"A">>, table_number |-> "1", seat |-> "N"],
                        [student_name |-> <<" ">>, seat |-> "S"]>>,
       mailing_list |-> <<>>],
      [attendance |-> <<[seat |-> "E"], [student_name |-> <<" ", "a">>, seat |-> "S"]>>,
       mailing_list |-> <<[name |-> <<"A">>, email |-> <<"x">>]>>],
      [attendance |-> <<[student_name |-> <<"A">>, seat |-> "W"],
                        [student_name |-> <<"B">>, seat |-> "X"]>>,
       mailing_list |-> <<[name |-> <<"B">>, email |-> <<"y">>]>>],
      [attendance |-> <<[student_name |-> <<"B">>, seat |-> "X"],
                        [student_name |-> <<"A">>, seat |-> "N"]>>,
       mailing_list |-> <<>>],
      [attendance |-> <<>>,
       mailing_list |-> <<[name |-> <<"A">>, email |-> <<"x">>],
                          [name |-> <<"B", " ">>, email |-> <<" ", "X">>]>>],
      [attendance |-> <<[student_name |-> <<>>]>>,
       mailing_list |-> <<[name |-> <<" ">>, email |-> <<"x">>], [name |-> <<"B">>]>>],
      [attendance |-> <<[student_name |-> <<"a">>], [student_name |-> <<"A">>, table_number |-> "2"]>>,
       mailing_list |-> <<[name |-> <<"B">>, email |-> <<"y">>],
                          [name |-> <<"A">>, email |-> <<"x">>]>>],
      [attendance |-> <<[student_name |-> <<"B">>, seat |-> "E"],
                        [student_name |-> <<"C">>, seat |-> "n"],
                        [student_name |-> <<"A">>, seat |-> "N"]>>,
       mailing_list |-> <<[name |-> <<"C">>, email |-> <<"z">>]>>] }

NextConfirm ==
    \/ StartConfirm(1, {"E1"}, ReviewBodies)
    \/ ConfirmGetEvent(1)
    \/ ResolveLookup(1)
    \/ ResolveInsert(1)
    \/ ConfirmCheck(1)
    \/ ConfirmRecord(1)
    \/ ConfirmMailCheck(1)
    \/ ConfirmMailAdd(1)

SpecConfirm == InitSeq /\ [][NextConfirm]_vars

\* Batches with repeated, nameless and unseatable records, one call at a time
RepeatBatchBodies ==
    { [records |-> <<[student_name |-> <<"A">>], [student_name |-> <<"A">>, seat |-> "S"],
                     [student_name |-> <<>>, seat |-> "N"], [student_name |-> <<"B">>]>>],
      [records |-> <<[table_number |-> "2"], [student_name |-> <<"a">>, source |-> "online"]>>],
      [records |-> <<[student_name |-> <<"B">>, seat |-> "E"],
                     [student_name |-> <<"A">>, seat |-> "X"],
                     [student_name |-> <<"C">>]>>],
      [records |-> <<[student_name |-> <<"C">>, seat |-> "X"]>>],
      [records |-> <<[student_name |-> <<>>]>>],
      [records |-> <<[student_name |-> <<"C">>], [student_name |-> <<"B">>]>>] }

NextBatch ==
    \/ StartBatch(1, {"E1"}, RepeatBatchBodies)
    \/ BatchGetEvent(1)
    \/ ResolveLookup(1)
    \/ ResolveInsert(1)
    \/ BatchRecord(1)
    \/ StartDelete(1, {"E1"}, {1, 2})
    \/ DeleteAttendance(1)

SpecBatch == InitSeq /\ [][NextBatch]_vars

\* Signups through confirm and through POST /api/mailing-list, one call at a time
SignupConfirmBodies ==
    { [attendance |-> <<>>,
       mailing_list |-> <<[name |-> <<"A">>, email |-> <<"x">>]>>],
      [attendance |-> <<>>,
       mailing_list |-> <<[name |-> <<"B">>, email |-> <<" ", "Y">>],
                          [name |-> <<"A">>, email |-> <<"X">>]>>] }

SignupMailBodies ==
    { [name |-> <<"C">>, email |-> <<"X">>],
      [name |-> <<"C">>, email |-> <<"x">>, event_id |-> "E1"],
      [name |-> <<"D">>, email |-> <<"y", " ">>],
      [name |-> <<"D">>],
      [name |-> <<"E">>, email |-> <<"z">>, event_id |-> "E0"] }

NextSignups ==
    \/ StartConfirm(1, {"E1"}, SignupConfirmBodies)
    \/ ConfirmGetEvent(1)
    \/ ConfirmMailCheck(1)
    \/ ConfirmMailAdd(1)
    \/ StartMailAdd(1, SignupMailBodies)
    \/ MailAddCheck(1)
    \/ MailAddInsert(1)

SpecSignups == InitSeq /\ [][NextSignups]_vars

\* Confirm calls and deletions of attendance records, one call at a time
DeleteConfirmBodies ==
    { [attendance |-> <<[student_name |-> <<"A">>, table_number |-> "1", seat |-> "N"]>>,
       mailing_list |-> <<>>],
      [attendance |-> <<[student_name |-> <<"B">>], [student_name |-> <<"A">>, seat |-> "W"]>>,
       mailing_list |-> <<[name |-> <<"A">>, email |-> <<"x">>]>>] }

NextDelete ==
    \/ StartConfirm(1, {"E1", "E2"}, DeleteConfirmBodies)
    \/ ConfirmGetEvent(1)
    \/ ResolveLookup(1)
    \/ ResolveInsert(1)
    \/ ConfirmCheck(1)
    \/ ConfirmRecord(1)
    \/ ConfirmMailCheck(1)
    \/ ConfirmMailAdd(1)
    \/ StartDelete(1, {"E1", "E2", "E0"}, {1, 2, 3})
    \/ DeleteAttendance(1)

SpecDelete == InitSeq /\ [][NextDelete]_vars

\* Concurrent event creations
NextEvents ==
    \E p \in WorkerIds :
        \/ StartEventCreate(p, EventInputs)
        \/ EventCreateCheck(p)
        \/ EventCreateInsert(p)

SpecEvents == Init /\ [][NextEvents]_vars

----------------------------------------------------------------------------
(* Properties of sequential runs *)

\* The entries of a confirm body that the attendance loop does not skip
NamedEntries(list) == {k \in 1..Len(list) : TruthyTrimmed(list[k], "student_name")}

Repeated(r) == r.kind = "confirm" /\ r.pc = "done" /\ r.prior # NoPrior

\* What the second of two identical confirm calls in a row must have done
SecondCallIsNoOp(r) ==
    /\ r.status = 200
    /\ attendance = r.prior.attendance
    /\ students = r.prior.students
    /\ Len(r.aresults) = Cardinality(NamedEntries(r.input.body.attendance))
    /\ \A k \in 1..Len(r.aresults) : r.aresults[k].status = "skipped"
    /\ Count(r.aresults, "created") = 0

Named(name) == {i \in 1..Len(students) : students[i].name = name}

\* One step of getOrCreateStudentByName by worker p, from this state to the next
ResolveStepOk(p) ==
    LET r == req[p]
        r2 == req'[p]
        hits == Named(r.name)
        new == students'[Len(students')]
    IN  /\ (r.pc = "lookup" /\ r2.pc # "lookup") =>
              /\ students' = students
              /\ IF hits # {}
                 THEN /\ r2.pc # "insert_student"
                      /\ \E i \in hits : /\ r2.student = {students[i]}
                                         /\ \A k \in hits : i <= k
                 ELSE r2.pc = "insert_student"
        /\ (r.pc = "insert_student" /\ r2.pc # "insert_student") =>
              /\ hits = {}
              /\ Len(students') = Len(students) + 1
              /\ SubSeq(students', 1, Len(students)) = students
              /\ new.name = r.name
              /\ new.first_event_id = r.input.event
              /\ \A i \in 1..Len(students) : students[i].id # new.id
              /\ r2.student = {new}

\* The entries of one confirm report, and of a call and its repetition, that
\* carry the same trimmed name carry the same student id
SameNameSameId ==
    \A p \in Workers :
        req[p].kind = "confirm" =>
            LET both == req[p].prior.aresults \o req[p].aresults
            IN  \A k1, k2 \in 1..Len(both) :
                    Trim(both[k1].student_name) = Trim(both[k2].student_name)
                        => both[k1].student_id = both[k2].student_id

\* C10: resolve_or_create(name, event) returns the Student whose name equals
\* the given string exactly and changes nothing when one exists; otherwise it
\* creates exactly one Student with that name and first_event_id = event and
\* returns it; called again in sequence with the same name it returns the
\* same Student id.
C10_ResolveOrCreate ==
    [][(\A p \in Workers : ResolveStepOk(p)) /\ SameNameSameId']_vars

\* Names differing only in case are both in the table, the second one created
\* by the call that has just resolved it
C10_Witness ==
    \E p \in Workers :
        /\ req[p].pc = "c_check"
        /\ req[p].name = <<"a">>
        /\ TheStudent(req[p]) = [id |-> 2, name |-> <<"a">>, first_event_id |-> "E1"]
        /\ students[1].name = <<"A">>

----------------------------------------------------------------------------
(* Properties of concurrent runs *)

\* C2: in every reachable state, whatever the interleaving of confirm,
\* single-attendance, batch-attendance and delete-attendance requests, there
\* is at most one Attendance row for each (event, student) pair.
C2_OneRowPerPair ==
    \A a, b \in attendance :
        a.event_id = b.event_id /\ a.student_id = b.student_id => a = b

\* An INSERT of a second row for a recorded pair has been rejected by the store
C2_Witness ==
    \E p \in Workers :
        /\ req[p].kind \in {"confirm", "attend", "batch"}
        /\ req[p].rejected = "UNIQUE"
        /\ \E a \in attendance :
               a.event_id = req[p].input.event /\ a.student_id = TheStudent(req[p]).id

\* C3: a confirm request whose INSERT is rejected by the (event, student)
\* uniqueness constraint, because another request inserted the pair after its
\* existence check, completes without an error response, reports that entry
\* skipped and goes on with the remaining entries of its list.
C3_RaceLoserSkips ==
    \A p \in Workers :
        req[p].kind = "confirm" /\ req[p].rejected = "UNIQUE" =>
            /\ req[p].status \in {0, 200}
            /\ \E k \in 1..Len(req[p].aresults) :
                   /\ req[p].aresults[k].student_id = TheStudent(req[p]).id
                   /\ req[p].aresults[k].status = "skipped"
            /\ req[p].pc = "done" =>
                   Len(req[p].aresults)
                       = Cardinality(NamedEntries(req[p].input.body.attendance))

\* The key of a stored signup: its email trimmed and lower-cased
Normalized(email) == ToLowerCase(Trim(email))

\* One step of the mailing-list loop of worker p, from this state to the next
MailStepOk(p) ==
    LET r == req[p]
        r2 == req'[p]
        entry == r.input.body.mailing_list[r.j]
        key == Normalized(entry.email)
        stored == {i \in 1..Len(mailing_list) : Normalized(mailing_list[i].email) = key}
        new == mailing_list'[Len(mailing_list')]
    IN  /\ (r.pc = "m_check" /\ r2 # r /\ stored # {}) =>
              /\ mailing_list' = mailing_list
              /\ r2.mresults = Append(r.mresults,
                                      [name |-> entry.name, email |-> key,
                                       status |-> "skipped"])
        /\ (r.pc = "m_add" /\ r2 # r /\ mailing_list' # mailing_list) =>
              /\ new.name = Trim(entry.name)
              /\ new.email = key
              /\ r2.mresults = Append(r.mresults,
                                      [name |-> entry.name, email |-> key,
                                       status |-> "created"])

\* Stored signups are never rewritten, and no two share a normalized email
FirstWriteStays ==
    /\ Len(mailing_list') >= Len(mailing_list)
    /\ SubSeq(mailing_list', 1, Len(mailing_list)) = mailing_list
    /\ \A i, k \in 1..Len(mailing_list') :
           Normalized(mailing_list'[i].email) = Normalized(mailing_list'[k].email) => i = k
    /\ \A i \in 1..Len(mailing_list') :
           mailing_list'[i].email = Normalized(mailing_list'[i].email)

\* C8: in the confirm path the dedup key is the trimmed, lower-cased email and
\* the first write wins: of entries with emails equal after trimming and
\* lower-casing, confirmed one after the other in one call or in two, exactly
\* one row is stored, with the first entry's (trimmed) name and the
\* lower-cased email; the later entry is reported skipped and the stored row
\* is left as it was.
C8_FirstWriteWins ==
    [][(\A p \in Workers : MailStepOk(p)) /\ FirstWriteStays]_vars

\* The signup "B " / " X" is stored as B / x, and a later entry A / x of
\* another call has been reported skipped
C8_Witness ==
    /\ mailing_list # <<>>
    /\ mailing_list[1].name = <<"B">>
    /\ mailing_list[1].email = <<"x">>
    /\ \E p \in Workers :
           /\ req[p].pc = "done"
           /\ req[p].mresults =
                  <<[name |-> <<"A">>, email |-> <<"x">>, status |-> "skipped"]>>
           /\ Len(mailing_list) = 1

\* C9: of two confirm requests carrying the same new normalized email that
\* both pass the existence check before either inserts, one row is stored and
\* the request that loses the uniqueness constraint on email reports the
\* entry skipped instead of answering with an error.
C9_MailRaceLoserSkips ==
    /\ \A i, k \in 1..Len(mailing_list) :
           mailing_list[i].email = mailing_list[k].email => i = k
    /\ \A p \in Workers :
           req[p].kind = "confirm" /\ req[p].rejected = "UNIQUE" =>
               /\ req[p].status \in {0, 200}
               /\ \E k \in 1..Len(req[p].mresults) :
                      /\ req[p].mresults[k].email
                             = Normalized(req[p].input.body.mailing_list[req[p].j].email)
                      /\ req[p].mresults[k].status = "skipped"

----------------------------------------------------------------------------
(* Properties of the OCR job state machine *)

\* The steps a job's status may take
JobTransitions ==
    {<<"pending", "processing">>, <<"processing", "complete">>,
     <<"processing", "failed">>}

JobStepOk(i) ==
    \/ ocr_jobs'[i].status = ocr_jobs[i].status
    \/ <<ocr_jobs[i].status, ocr_jobs'[i].status>> \in JobTransitions

\* C4: a job starts pending and its status only moves pending -> processing
\* -> (complete | failed): no step takes a status backwards, from pending
\* straight to a terminal status, or out of complete or failed; jobs are not
\* removed.
C4_JobStatusOneWay ==
    [][/\ Len(ocr_jobs') >= Len(ocr_jobs)
       /\ \A i \in 1..Len(ocr_jobs) : JobStepOk(i)
       /\ \A i \in (Len(ocr_jobs) + 1)..Len(ocr_jobs') :
              ocr_jobs'[i].status = "pending"]_vars

\* Two scans have run to the end, one job complete and one failed
C4_Witness ==
    /\ Len(ocr_jobs) = 2
    /\ {ocr_jobs[1].status, ocr_jobs[2].status} = {"complete", "failed"}

\* The scan of worker p has answered and had created a job
ScanAnswered(p) ==
    req[p].kind = "scan" /\ req[p].pc = "done" /\ req[p].job # 0

\* C5: whenever a scan request that created a job has returned its response,
\* that job is complete or failed, whatever the vision call returned or threw.
C5_ScanIsSynchronous ==
    \A p \in Workers :
        ScanAnswered(p) => ocr_jobs[req[p].job].status \in {"complete", "failed"}

\* A scan whose vision call was refused has answered while the job of another
\* scan is still processing
C5_Witness ==
    \E p, q \in Workers :
        /\ ScanAnswered(p)
        /\ req[p].outcome.threw
        /\ req[q].kind = "scan" /\ req[q].pc = "s_vision"
        /\ ocr_jobs[req[q].job].status = "processing"

\* C6: when the vision call or the parsing or normalizing of its output
\* throws, the job is recorded failed with the error message, the request
\* answers 200 with status 'failed', and the blob and the job are retained.
C6_FailureKeepsEvidence ==
    \A p \in Workers :
        ScanAnswered(p) /\ req[p].outcome.threw =>
            /\ req[p].status = 200
            /\ req[p].scan_status = "failed"
            /\ req[p].job \in 1..Len(ocr_jobs)
            /\ ocr_jobs[req[p].job].status = "failed"
            /\ ocr_jobs[req[p].job].error_message = ErrorMessage(req[p].outcome)
            /\ ocr_jobs[req[p].job].error_message # NULL
            /\ ocr_jobs[req[p].job].r2_key = req[p].key
            /\ req[p].key \in blobs

\* The normalizer threw on a reply that was JSON but not an object
C6_Witness ==
    \E p \in Workers :
        /\ ScanAnswered(p)
        /\ req[p].outcome.threw
        /\ ocr_jobs[req[p].job].error_message = "Cannot read properties of null"

\* C7: for every job, the result is present exactly when the status is
\* complete and the error message is present exactly when it is failed.
C7_ResultIffCompleteErrorIffFailed ==
    \A i \in 1..Len(ocr_jobs) :
        /\ ocr_jobs[i].result_json # NULL <=> ocr_jobs[i].status = "complete"
        /\ ocr_jobs[i].error_message # NULL <=> ocr_jobs[i].status = "failed"

\* The pending job of a plain upload next to the complete job of a scan
C7_Witness ==
    /\ Len(ocr_jobs) = 2
    /\ {ocr_jobs[1].status, ocr_jobs[2].status} = {"pending", "complete"}
    /\ \E i \in 1..2 : ocr_jobs[i].result_json # NULL

\* C21: no step changes the blob reference, the event id or the id of a job
\* that exists, or removes a job: they stay as insertOcrJob wrote them through
\* the processing, complete and failed updates and every other operation.
C21_JobReferenceImmutable ==
    [][/\ Len(ocr_jobs') >= Len(ocr_jobs)
       /\ \A i \in 1..Len(ocr_jobs) :
              /\ ocr_jobs'[i].r2_key = ocr_jobs[i].r2_key
              /\ ocr_jobs'[i].event_id = ocr_jobs[i].event_id
              /\ ocr_jobs'[i].id = ocr_jobs[i].id]_vars

\* A failed job and a complete job, each still pointing at its own stored blob
C21_Witness ==
    /\ Len(ocr_jobs) = 2
    /\ {ocr_jobs[1].status, ocr_jobs[2].status} = {"complete", "failed"}
    /\ ocr_jobs[1].r2_key # ocr_jobs[2].r2_key
    /\ \A i \in 1..2 : ocr_jobs[i].r2_key \in blobs /\ ocr_jobs[i].event_id = "E1"

\* The event of worker p's scan has a failed job, and the scan is about to
\* insert its own
RescanAfterFailure(p) ==
    /\ req[p].kind = "scan" /\ req[p].pc = "s_insert"
    /\ \E i \in 1..Len(ocr_jobs) :
           ocr_jobs[i].status = "failed" /\ ocr_jobs[i].event_id = req[p].input.event

\* C22: a scan issued for an event that has a failed job inserts a job with
\* an id no job has, in status pending, for that event; and no step changes
\* anything of a failed job: its status, error message and blob reference stay.
C22_RecoveryIsANewJob ==
    [][/\ \A i \in 1..Len(ocr_jobs) :
              ocr_jobs[i].status = "failed" =>
                  i <= Len(ocr_jobs') /\ ocr_jobs'[i] = ocr_jobs[i]
       /\ \A p \in Workers :
              RescanAfterFailure(p) /\ req'[p] # req[p] =>
                  /\ Len(ocr_jobs') = Len(ocr_jobs) + 1
                  /\ SubSeq(ocr_jobs', 1, Len(ocr_jobs)) = ocr_jobs
                  /\ ocr_jobs'[Len(ocr_jobs')].status = "pending"
                  /\ ocr_jobs'[Len(ocr_jobs')].event_id = req[p].input.event
                  /\ ocr_jobs'[Len(ocr_jobs')].r2_key = req[p].key
                  /\ \A i \in 1..Len(ocr_jobs) :
                         ocr_jobs[i].id # ocr_jobs'[Len(ocr_jobs')].id]_vars

\* After the first job of E1 failed, a second scan of E1 has run to the end
\* with its own job, and the first job is still failed with its message
C22_Witness ==
    \E p \in Workers :
        /\ ScanAnswered(p)
        /\ req[p].job = 2
        /\ ocr_jobs[2].status = "complete"
        /\ ocr_jobs[1].status = "failed"
        /\ ocr_jobs[1].error_message # NULL
        /\ ocr_jobs[1].event_id = ocr_jobs[2].event_id
        /\ ocr_jobs[1].r2_key # ocr_jobs[2].r2_key

----------------------------------------------------------------------------
(* Properties of the normalizer *)

\* The call of validateOcrResult by worker p has ended
Validated(p) == req[p].kind = "validate" /\ req[p].pc = "done"

\* C11: the Normalizer never fails: for every parsed JSON value (null, a
\* non-object, a list field that is no array, a name or email that is no
\* string) it returns a canonical result instead of throwing.
C11_NormalizerNeverThrows ==
    \A p \in Workers : Validated(p) => ~req[p].out.threw

\* The seat a string stands for once it is in upper case
SeatWords ==
    {<<<<"N", "O", "R", "T", "H">>, "N">>, <<<<"S", "O", "U", "T", "H">>, "S">>,
     <<<<"E", "A", "S", "T">>, "E">>, <<<<"W", "E", "S", "T">>, "W">>,
     <<<<"N">>, "N">>, <<<<"S">>, "S">>, <<<<"E">>, "E">>, <<<<"W">>, "W">>}

\* The result of worker p's normalizeSeat call is the seat that `word` stands
\* for, or null when it stands for none
SeatIs(p, word) ==
    /\ \A w \in SeatWords : w[1] = word => req[p].out = w[2]
    /\ (\A w \in SeatWords : w[1] # word) => req[p].out = NULL

SeatCalled(p) == req[p].kind = "seat" /\ req[p].pc = "done"

\* C12 as stated: the four words and the four letters map, ignoring case, to
\* N/S/E/W, and every other value (any other string, the empty string, any
\* non-string) maps to null.
C12_SeatOtherwiseNull ==
    \A p \in Workers :
        SeatCalled(p) =>
            IF req[p].seat.t = "string"
            THEN SeatIs(p, ToUpperCase(req[p].seat.s))
            ELSE req[p].out = NULL

\* C12 amended: the four words and the four letters map, ignoring case and
\* surrounding white space, to N/S/E/W; every other value maps to null; the
\* result is always one of N, S, E, W or null.
C12_SeatNormalization ==
    \A p \in Workers :
        SeatCalled(p) =>
            /\ req[p].out \in Seats \cup {NULL}
            /\ IF req[p].seat.t = "string"
               THEN SeatIs(p, ToUpperCase(Trim(req[p].seat.s)))
               ELSE req[p].out = NULL

\* "North" has been normalized to N
C12_Witness ==
    \E p \in Workers :
        /\ SeatCalled(p)
        /\ req[p].seat = JStr(<<"N", "o", "r", "t", "h">>)
        /\ req[p].out = "N"

\* The text of field f of a raw entry: '' unless it is a string
RawText(entry, f) == IF Get(entry, f).t = "string" THEN Get(entry, f).s ELSE <<>>

\* The entries of `kept` are the entries of `raw` with the indices `keep`,
\* in the same order, each with field f trimmed (and lower-cased when lower)
KeptInOrder(kept, raw, keep, f, lower) ==
    /\ Len(kept) = Cardinality(keep)
    /\ \A i \in keep :
           LET k == Cardinality({j \in keep : j <= i})
               text == Trim(RawText(raw[i], f))
           IN  kept[k][f] = IF lower THEN ToLowerCase(text) ELSE text

NonBlank(entry, f) == Trim(RawText(entry, f)) # <<>>

\* C13: a canonical result holds no attendance entry whose name is empty
\* after trimming and no signup whose name or email is empty after trimming;
\* every kept name is trimmed, every kept email trimmed and lower-cased, and
\* the kept entries are in their input order.
C13_KeptEntriesCanonical ==
    \A p \in Workers :
        Validated(p) /\ ~req[p].out.threw =>
            LET result == req[p].out.result
                rawA == Entries(Get(req[p].raw, "attendance"))
                rawM == Entries(Get(req[p].raw, "mailing_list"))
                keepA == {i \in 1..Len(rawA) : NonBlank(rawA[i], "name")}
                keepM == {i \in 1..Len(rawM) :
                             NonBlank(rawM[i], "name") /\ NonBlank(rawM[i], "email")}
            IN  /\ \A k \in 1..Len(result.attendance) :
                       LET e == result.attendance[k]
                       IN  e.name # <<>> /\ e.name = Trim(e.name)
                /\ \A k \in 1..Len(result.mailing_list) :
                       LET e == result.mailing_list[k]
                       IN  /\ e.name # <<>> /\ e.name = Trim(e.name)
                           /\ e.email # <<>> /\ e.email = ToLowerCase(Trim(e.email))
                /\ KeptInOrder(result.attendance, rawA, keepA, "name", FALSE)
                /\ KeptInOrder(result.mailing_list, rawM, keepM, "name", FALSE)
                /\ KeptInOrder(result.mailing_list, rawM, keepM, "email", TRUE)

\* Of two signups only " B" / "y" is kept, as B / y
C13_Witness ==
    \E p \in Workers :
        /\ Validated(p) /\ ~req[p].out.threw
        /\ Len(Entries(Get(req[p].raw, "mailing_list"))) = 2
        /\ Len(req[p].out.result.mailing_list) = 1
        /\ req[p].out.result.mailing_list[1].name = <<"B">>
        /\ req[p].out.result.mailing_list[1].email = <<"y">>

----------------------------------------------------------------------------
(* Properties of the roster *)

\* The roster request of worker p has been answered with a roster
RosterAnswered(p) ==
    req[p].kind = "roster" /\ req[p].pc = "done" /\ req[p].status = 200

\* Some member has this name, ignoring case
HasMemberNamed(name) ==
    \E i \in 1..Len(members) :
        ~members[i].deleted /\ ToLowerCase(members[i].name) = ToLowerCase(name)

\* What a roster reports now for a student of this name
NeedsSignup(name) == NeedsMailingList(MemberFlags(name))

\* A step that inserts a member named like `name`, ignoring case
MemberAdded(name) ==
    /\ Len(members') = Len(members) + 1
    /\ ToLowerCase(members'[Len(members')].name) = ToLowerCase(name)

\* A step that deletes the only member named like `name`, ignoring case
MemberRemoved(name) == HasMemberNamed(name) /\ ~HasMemberNamed(name)'

\* Adding a matching member clears needs_mailing_list, removing it sets it
SignupFollowsMembers ==
    members' # members =>
        \A k \in 1..Len(students) :
            LET name == students[k].name
            IN  /\ MemberAdded(name) => ~NeedsSignup(name)'
                /\ MemberRemoved(name) => ~NeedsSignup(name) /\ NeedsSignup(name)'

\* Every listed student needs a signup exactly when no member has the
\* student's name, ignoring case, and the student is not declined
SignupIffNoMember ==
    \A p \in Workers :
        RosterAnswered(p) =>
            \A k \in 1..Len(req[p].students) :
                LET s == req[p].students[k]
                IN  /\ s.needs_mailing_list <=> (~HasMemberNamed(s.name) /\ ~s.declined)
                    /\ s.is_member <=> HasMemberNamed(s.name)

\* C14: for every student on a class roster, needs_signup is true exactly
\* when no Member has the student's name ignoring case and the student is not
\* declined; adding a Member whose name matches ignoring case makes it false
\* and removing that Member makes it true again.
C14_NeedsSignup ==
    [][SignupFollowsMembers /\ SignupIffNoMember']_vars

\* The member "a" was added and removed again, and the roster lists student
\* A as needing a signup
C14_Witness ==
    \E p \in Workers :
        /\ RosterAnswered(p)
        /\ Len(members) = 1 /\ members[1].deleted /\ members[1].name = <<"a">>
        /\ \E k \in 1..Len(req[p].students) :
               /\ req[p].students[k].name = <<"A">>
               /\ req[p].students[k].needs_mailing_list

\* The students with an Attendance row at some event named like event id
AttendedClassOf(id) ==
    {s \in Range(students) :
        \E a \in attendance, e, given \in events :
            /\ given.id = id /\ e.name = given.name
            /\ a.event_id = e.id /\ a.student_id = s.id}

\* C15: roster_for(event) lists a student exactly when the student has an
\* Attendance row at some event with the given event's name (any occurrence,
\* not only the given one), and lists each such student once.
C15_RosterIsTheClass ==
    \A p \in Workers :
        RosterAnswered(p) =>
            /\ {req[p].students[k].student_id : k \in 1..Len(req[p].students)}
                   = {s.id : s \in AttendedClassOf(req[p].input.event)}
            /\ \A k, l \in 1..Len(req[p].students) :
                   req[p].students[k].student_id = req[p].students[l].student_id => k = l

\* The roster of E1 lists a student who attended E1 and E2 once, and a
\* student who attended only E2
C15_Witness ==
    \E p \in Workers :
        /\ RosterAnswered(p)
        /\ req[p].input.event = "E1"
        /\ Len(req[p].students) = 2
        /\ \E k \in 1..2 : req[p].students[k].events_attended = 2
        /\ \E k \in 1..2 :
               \A a \in attendance :
                   a.student_id = req[p].students[k].student_id => a.event_id = "E2"

----------------------------------------------------------------------------
(* Properties of the error taxonomy *)

\* The pair (event, student of this name) has an Attendance row
Recorded(event, name) ==
    \E s \in GetStudentByName(name), a \in attendance :
        a.event_id = event /\ a.student_id = s.id

\* Worker p runs a single-attendance request, past its validation, for a
\* pair that has a row
AttendOnRecordedPair(p) ==
    /\ req[p].kind = "attend"
    /\ req[p].pc \in {"lookup", "a_record"}
    /\ Recorded(req[p].input.event, req[p].name)

\* Worker p's confirm is at the existence check of an entry whose pair has a row
ConfirmOnRecordedPair(p) ==
    /\ req[p].kind = "confirm"
    /\ req[p].pc = "c_check"
    /\ Recorded(req[p].input.event, req[p].name)

FirstSteps == {"c_event", "a_event", "b_event", "s_event", "r_event", "e_check"}

MalformedIds == {"e4", "E44", "G4", "E"}

\* The requests that C17 lists: a confirm whose attendance or mailing_list is
\* not an array, a manual record with no student_name or a seat outside
\* N/S/E/W, a new event with no or an empty name, no date, a malformed date
\* or id
ListedInvalid(r) ==
    CASE r.kind = "confirm" ->
             \/ "attendance" \notin DOMAIN r.input.body
             \/ "mailing_list" \notin DOMAIN r.input.body
      [] r.kind = "attend" ->
             \/ "student_name" \notin DOMAIN r.input.body
             \/ r.input.body.student_name = <<>>
             \/ r.input.body.seat \notin {"N", "S", "E", "W"}
      [] r.kind = "event_create" ->
             \/ "name" \notin DOMAIN r.input.body
             \/ r.input.body.name = ""
             \/ "date" \notin DOMAIN r.input.body
             \/ r.input.body.date \in {<<>>, BadDate}
             \/ ("id" \in DOMAIN r.input.body /\ r.input.body.id \in MalformedIds)
      [] OTHER -> FALSE

\* C17: a request answered 400 is answered in the first step of its handler,
\* and that step changes no table and no blob; each listed invalid request
\* (confirm with a non-array list, manual record with no name or a bad seat,
\* new event with no name, no or a malformed date, a malformed id) ends in
\* that first step with 400 (404 when its event is looked up first and is
\* absent) and changes nothing.
C17_InvalidInputMutatesNothing ==
    [][\A p \in Workers :
         /\ req[p].pc # "done" /\ req'[p].pc = "done" /\ req'[p].status = 400 =>
                req[p].pc \in FirstSteps /\ UNCHANGED StoreVars
         /\ req[p].pc \in FirstSteps /\ ListedInvalid(req[p]) /\ req'[p] # req[p] =>
                /\ req'[p].pc = "done"
                /\ req'[p].status = 400
                       \/ (req[p].kind = "confirm" /\ req'[p].status = 404)
                /\ UNCHANGED StoreVars]_vars

\* A confirm with a reviewed attendance entry and no mailing_list array has
\* been answered 400 at an event that exists, after earlier requests have
\* written rows
C17_Witness ==
    \E p \in Workers :
        /\ req[p].kind = "confirm" /\ req[p].pc = "done"
        /\ req[p].status = 400 /\ req[p].code = "BAD_REQUEST"
        /\ req[p].input.event = "E1"
        /\ "attendance" \in DOMAIN req[p].input.body
        /\ attendance # {}

\* Worker p is about to run the first step of a request of one of the five
\* routes that name an event, and the event has no row
NamesAbsentEvent(p) ==
    /\ req[p].kind \in {"confirm", "scan", "attend", "batch", "roster"}
    /\ req[p].pc \in FirstSteps
    /\ \A e \in events : e.id # req[p].input.event

\* The body checks that the attendance endpoints run before the event lookup
PassesBodyChecks(r) ==
    CASE r.kind = "attend" ->
             /\ "student_name" \in DOMAIN r.input.body
             /\ r.input.body.student_name # <<>>
             /\ r.input.body.seat \in {"N", "S", "E", "W"}
      [] r.kind = "batch" -> r.input.body.records # <<>>
      [] OTHER -> TRUE

\* C18 as stated: a confirm, scan, single attendance, batch attendance or
\* roster request naming an event id with no row is answered 404 NOT_FOUND
\* and changes no table and no blob.
C18_AbsentEventNotFound ==
    [][\A p \in Workers :
         NamesAbsentEvent(p) /\ req'[p] # req[p] =>
             /\ req'[p].pc = "done"
             /\ req'[p].status = 404 /\ req'[p].code = "NOT_FOUND"
             /\ UNCHANGED StoreVars]_vars

\* C18, amended: such a request is answered 404 NOT_FOUND when its body passes
\* the checks that precede the lookup, 400 BAD_REQUEST when a single or batch
\* attendance body fails them; either way it ends in its first step and
\* changes no table and no blob; and every 404 of these routes is given in
\* the first step, with no change.
C18_AbsentEventNoChange ==
    [][\A p \in Workers :
         /\ NamesAbsentEvent(p) /\ req'[p] # req[p] =>
                /\ req'[p].pc = "done"
                /\ req'[p].status = IF PassesBodyChecks(req[p]) THEN 404 ELSE 400
                /\ UNCHANGED StoreVars
         /\ req[p].pc # "done" /\ req'[p].pc = "done" /\ req'[p].status = 404 =>
                /\ req[p].pc \in FirstSteps
                /\ req'[p].code = "NOT_FOUND"
                /\ NamesAbsentEvent(p)
                /\ UNCHANGED StoreVars]_vars

\* A scan naming an event with no row has been answered 404 while the store
\* holds the blob and the job of an earlier scan
C18_Witness ==
    \E p \in Workers :
        /\ req[p].kind = "scan" /\ req[p].pc = "done"
        /\ req[p].status = 404 /\ req[p].code = "NOT_FOUND"
        /\ req[p].input.event = "E0"
        /\ blobs # {} /\ ocr_jobs # <<>>

----------------------------------------------------------------------------
(* Properties of event ids *)

HexUpper == {"0", "1", "2", "3", "4", "5", "6", "7", "8", "9",
             "A", "B", "C", "D", "E", "F"}

\* Every stored id is 8 uppercase hexadecimal characters, and no two Event
\* rows share an id
EventIdsWellFormed ==
    /\ \A e \in events :
           /\ Len(EventIdChars(e.id)) = 8
           /\ \A i \in 1..8 : EventIdChars(e.id)[i] \in HexUpper
    /\ \A e1, e2 \in events : e1.id = e2.id => e1 = e2

\* The id that worker p's creation is about to look up or to insert
CreatingId(p) ==
    IF req[p].pc = "e_insert" THEN req[p].id
    ELSE IF "id" \in DOMAIN req[p].input.body THEN req[p].input.body.id
    ELSE req[p].input.generated

\* Worker p's creation, valid in name, date and id, is about to look up or to
\* insert an id that an Event row has
CreatesExistingId(p) ==
    /\ req[p].kind = "event_create"
    /\ req[p].pc \in {"e_check", "e_insert"}
    /\ ~ListedInvalid(req[p])
    /\ \E e \in events : e.id = CreatingId(p)

\* No Event row is changed or removed
EventsKept == \A e \in events : e \in events'

\* C19: every stored Event id is 8 uppercase hexadecimal characters and no
\* two Events share an id; a creation whose id an Event already has is
\* answered 409 CONFLICT and leaves every existing Event as it was.
C19_UniqueIdsAndConflict ==
    /\ []EventIdsWellFormed
    /\ [][/\ EventsKept
          /\ \A p \in Workers :
                 CreatesExistingId(p) /\ req'[p] # req[p] =>
                     /\ req'[p].pc = "done"
                     /\ req'[p].status = 409 /\ req'[p].code = "CONFLICT"
                     /\ events' = events]_vars

\* What holds of C19: well-formed and unique ids, existing rows kept, and
\* 409 CONFLICT whenever the lookup of getEventById finds the id
EventIdsUniqueAndKept ==
    /\ []EventIdsWellFormed
    /\ [][/\ EventsKept
          /\ \A p \in Workers :
                 CreatesExistingId(p) /\ req'[p] # req[p] =>
                     /\ req'[p].pc = "done"
                     /\ events' = events
                     /\ req'[p].status = IF req[p].pc = "e_check" THEN 409 ELSE 500]_vars

\* Two creations of the same new id have both passed the lookup; the second
\* insert has been rejected by the primary key
EventCreateRaceLost ==
    \E p \in Workers :
        /\ req[p].kind = "event_create" /\ req[p].pc = "done"
        /\ req[p].status = 500 /\ req[p].rejected = "UNIQUE"
        /\ \E e \in events : e.id = req[p].id

----------------------------------------------------------------------------
(* Properties of the API key *)

\* The request carries the configured key, as Bearer token or as X-API-Key
CarriesApiKey(headers) ==
    \/ "authorization" \in DOMAIN headers /\ headers.authorization = Bearer \o API_KEY
    \/ "x_api_key" \in DOMAIN headers /\ headers.x_api_key = API_KEY

\* Worker p holds an unanswered request, without the key, to a route under
\* /api other than the health check
ApiCallWithoutKey(p) ==
    /\ req[p].kind = "api" /\ req[p].pc \in {"pragma", "auth"}
    /\ req[p].route # "/api/health"
    /\ ~CarriesApiKey(req[p].headers)

\* Worker p holds an unanswered GET /photos/<key> without the key
ServeCallWithoutKey(p) ==
    /\ req[p].kind = "serve" /\ req[p].pc = "get"
    /\ ~CarriesApiKey(req[p].headers)

\* The step of worker p answers 401, hands the request to no handler, reads
\* no blob and changes nothing
Refused(p) ==
    /\ req'[p].kind = req[p].kind
    /\ req'[p].pc = "done" =>
           req'[p].status = 401 /\ req'[p].code = "UNAUTHORIZED"
    /\ req'[p].kind = "serve" => req'[p].read = {}
    /\ UNCHANGED StoreVars

\* C20: a request without the configured API key to a route under /api other
\* than /api/health, or to GET /photos/<key>, is answered 401 UNAUTHORIZED,
\* reads no blob and changes no table.
C20_EveryRouteRequiresKey ==
    [][\A p \in Workers :
         (ApiCallWithoutKey(p) \/ ServeCallWithoutKey(p)) /\ req'[p] # req[p] =>
             Refused(p)]_vars

\* What holds of C20: the routes under /api other than the health check
\* refuse a request without the key, and a handler of these routes only ever
\* runs a request that carries it
ApiRoutesRequireKey ==
    /\ [](\A p \in Workers :
              req[p].kind \in {"attend", "photo"} => CarriesApiKey(req[p].headers))
    /\ [][\A p \in Workers :
              ApiCallWithoutKey(p) /\ req'[p] # req[p] => Refused(p)]_vars

\* A stored photo has been served to a request that carries no key at all
PhotoServedWithoutKey ==
    \E p \in Workers :
        /\ req[p].kind = "serve" /\ req[p].pc = "done"
        /\ req[p].headers = [none |-> TRUE]
        /\ req[p].status = 200
        /\ req[p].read # {} /\ req[p].read \subseteq blobs

----------------------------------------------------------------------------
(* Properties of the tables *)

\* C23: no step of confirm, single or batch attendance, delete-attendance,
\* scan, member, mailing-list or student operations removes a Student row or
\* changes the id or the name of one: the students table only grows.
C23_StudentsOnlyGrow ==
    [][/\ Len(students') >= Len(students)
       /\ \A i \in 1..Len(students) :
              /\ students'[i].id = students[i].id
              /\ students'[i].name = students[i].name]_vars

\* A student's only attendance row has been deleted, a member has been
\* removed, a scan has failed and a signup is stored: the student is still there
C23_Witness ==
    \E p \in Workers :
        /\ req[p].kind = "delete" /\ req[p].pc = "done" /\ req[p].status = 204
        /\ \A a \in attendance : a.student_id # req[p].input.student_id
        /\ \E i \in 1..Len(students) : students[i].id = req[p].input.student_id
        /\ Len(members) = 1 /\ members[1].deleted
        /\ \E i \in 1..Len(ocr_jobs) : ocr_jobs[i].status = "failed"
        /\ mailing_list # <<>>

\* C24: every Attendance row's seat is N, S, E, W or null, whichever of
\* confirm, single attendance and batch attendance wrote the row and whatever
\* seat the request carried.
C24_SeatDomain ==
    \A a \in attendance : a.seat \in {"N", "S", "E", "W"} \/ a.seat = NULL

\* Confirm and batch have been refused a seat outside the domain by the
\* store, and each of the three endpoints has written a row
C24_Witness ==
    /\ Cardinality({a.student_id : a \in attendance}) = 3
    /\ \E a \in attendance : a.source = "ocr"
    /\ \E a \in attendance : a.seat = NULL
    /\ \E p \in Workers :
           /\ req[p].kind = "batch" /\ req[p].pc = "done"
           /\ req[p].status = 500 /\ req[p].rejected = "CHECK"
           /\ req[p].input.body.records[1].seat = "n"

----------------------------------------------------------------------------
(* Properties of names in different letter case *)

\* Some live member has this name, letter case ignored
MemberNamedLike(name) ==
    \E i \in 1..Len(members) :
        ~members[i].deleted /\ ToLowerCase(members[i].name) = ToLowerCase(name)

\* The student row with this id has exactly this name
StudentIsNamed(id, name) ==
    \E i \in 1..Len(students) : students[i].id = id /\ students[i].name = name

\* C25: a confirmed entry is attached to the Student whose name is exactly the
\* entry's trimmed name, so 'A' and 'a' get a Student row and an Attendance
\* row each; the roster reports a student as a member, and the non-members
\* list leaves a student out, exactly when a Member has the same name with
\* letter case ignored, so one Member matches both.
C25_CaseSplitsStudentsNotMembers ==
    \A p \in Workers :
        /\ req[p].kind = "confirm" /\ req[p].pc = "done" /\ req[p].status = 200 =>
               \A k \in 1..Len(req[p].aresults) :
                   /\ StudentIsNamed(req[p].aresults[k].student_id,
                                     Trim(req[p].aresults[k].student_name))
                   /\ \E a \in attendance :
                          /\ a.event_id = req[p].input.event
                          /\ a.student_id = req[p].aresults[k].student_id
        /\ RosterAnswered(p) =>
               \A k \in 1..Len(req[p].students) :
                   req[p].students[k].is_member <=> MemberNamedLike(req[p].students[k].name)
        /\ req[p].kind = "non_members" /\ req[p].pc = "done" /\ req[p].status = 200 =>
               {row.student_id : row \in Range(req[p].data)} =
                   {st.id : st \in {st \in Range(students) :
                                       /\ \E a \in attendance :
                                              /\ a.event_id = req[p].input.event
                                              /\ a.student_id = st.id
                                       /\ ~MemberNamedLike(st.name)}}

\* 'A' and 'a' have been confirmed for E1: two Student rows, two Attendance
\* rows, and the roster reports both as members on the strength of member 'A'
C25_Witness ==
    \E p \in Workers :
        /\ RosterAnswered(p)
        /\ Len(req[p].students) = 2
        /\ {req[p].students[k].name : k \in 1..2} = {<<"A">>, <<"a">>}
        /\ req[p].students[1].student_id # req[p].students[2].student_id
        /\ \A k \in 1..2 : req[p].students[k].is_member
        /\ Cardinality(attendance) = 2
        /\ Cardinality({i \in 1..Len(members) : ~members[i].deleted}) = 1

\* The non-members list of E1 is empty although only member 'A' exists and
\* both 'A' and 'a' attended
NonMembersIgnoreCase ==
    \E p \in Workers :
        /\ req[p].kind = "non_members" /\ req[p].pc = "done" /\ req[p].status = 200
        /\ req[p].data = <<>>
        /\ Cardinality(req[p].student_ids) = 2
        /\ Cardinality({i \in 1..Len(members) : ~members[i].deleted}) = 1

----------------------------------------------------------------------------
(* Properties of the confirm report *)

\* The entry has no student_name, or one that is empty once trimmed
Nameless(entry) ==
    "student_name" \notin DOMAIN entry \/ Trim(entry.student_name) = <<>>

\* How many entries of the list have a name
NamedCount(list) == Cardinality({k \in 1..Len(list) : ~Nameless(list[k])})

\* A confirm call that has been answered 200
Confirmed(p) == req[p].kind = "confirm" /\ req[p].pc = "done" /\ req[p].status = 200

\* What a nameless entry must not have left behind in the report of worker p
\* or in the students table
NamelessLeftOut(p) ==
    /\ \A k \in 1..Len(req[p].aresults) :
           Trim(req[p].aresults[k].student_name) # <<>>
    /\ Len(req[p].aresults) <= NamedCount(req[p].input.body.attendance)
    /\ Confirmed(p) =>
           /\ Len(req[p].aresults) = NamedCount(req[p].input.body.attendance)
           /\ Count(req[p].aresults, "created") + Count(req[p].aresults, "skipped")
                  = NamedCount(req[p].input.body.attendance)
    /\ \A i \in 1..Len(students) : Trim(students[i].name) # <<>>

\* C26: confirm passes over every attendance entry whose student_name is
\* missing or empty after trimming: a step of a confirm call that writes a
\* Student or an Attendance row is working on a named entry, and writes the
\* row of that entry's trimmed name; the report never holds a nameless entry
\* and, in a 200 response, created + skipped counts the named entries only.
C26_NamelessEntriesSkipped ==
    [][\A p \in Workers :
         req[p].kind = "confirm" =>
             /\ students' # students =>
                    /\ ~Nameless(req[p].input.body.attendance[req[p].i])
                    /\ students'[Len(students')].name =
                           Trim(req[p].input.body.attendance[req[p].i].student_name)
             /\ attendance' # attendance =>
                    /\ ~Nameless(req[p].input.body.attendance[req[p].i])
                    /\ Cardinality(attendance') = Cardinality(attendance) + 1
             /\ req'[p].kind = "confirm" => NamelessLeftOut(p)']_vars

\* A call with a named entry and a blank one has been answered: one Student,
\* one Attendance row, one line in the report
C26_Witness ==
    \E p \in Workers :
        /\ Confirmed(p)
        /\ Len(req[p].input.body.attendance) = 2
        /\ Nameless(req[p].input.body.attendance[2])
        /\ Len(req[p].aresults) = 1
        /\ Count(req[p].aresults, "created") = 1
        /\ Len(students) = 1 /\ Cardinality(attendance) = 1

\* The entry has a name and an email that are not empty once trimmed
Signup(entry) ==
    /\ "name" \in DOMAIN entry /\ Trim(entry.name) # <<>>
    /\ "email" \in DOMAIN entry /\ Trim(entry.email) # <<>>

IsNamed(entry) == ~Nameless(entry)

\* The entries that the report of list must hold, in submission order
NamedInOrder(list) == SelectSeq(list, IsNamed)

SignupsInOrder(list) == SelectSeq(list, Signup)

\* The report of worker p's answered call: one line for each named entry and
\* for each signup, in submission order, created or skipped
ReportInOrder(p) ==
    LET named == NamedInOrder(req[p].input.body.attendance)
        signups == SignupsInOrder(req[p].input.body.mailing_list)
        lines == req[p].aresults
        mlines == req[p].mresults
    IN  /\ Len(lines) = Len(named)
        /\ \A k \in 1..Len(lines) :
               /\ lines[k].student_name = named[k].student_name
               /\ lines[k].status \in {"created", "skipped"}
        /\ Count(lines, "created") + Count(lines, "skipped") = Len(named)
        /\ Len(mlines) = Len(signups)
        /\ \A k \in 1..Len(mlines) :
               /\ mlines[k].name = signups[k].name
               /\ mlines[k].email = ToLowerCase(Trim(signups[k].email))
               /\ mlines[k].status \in {"created", "skipped"}
        /\ Count(mlines, "created") + Count(mlines, "skipped") = Len(signups)

\* A step of worker p's call adds as many rows as it adds created lines
CreatedCountsRows(p) ==
    /\ Cardinality(attendance') - Cardinality(attendance)
           = Count(req'[p].aresults, "created") - Count(req[p].aresults, "created")
    /\ Len(mailing_list') - Len(mailing_list)
           = Count(req'[p].mresults, "created") - Count(req[p].mresults, "created")

\* C27: in every 200 response of confirm, attendance.created + skipped is the
\* number of entries with a non-empty trimmed name, the report lists those
\* entries in submission order, and created counts the Attendance rows the
\* call added (every step of the call adds as many rows as created lines,
\* starting from an empty report); likewise for mailing_list and its rows.
C27_CountsMatchReportAndRows ==
    [][\A p \in Workers :
         /\ req[p].kind = "confirm" /\ req[p].pc # "done" => CreatedCountsRows(p)
         /\ req[p].pc \in {"idle", "done"} /\ req'[p].kind = "confirm" /\ req'[p] # req[p] =>
                req'[p].aresults = <<>> /\ req'[p].mresults = <<>>
         /\ Confirmed(p)' => ReportInOrder(p)']_vars

\* An answered call that created one of its two named entries and skipped the
\* other, and created one of its two signups and skipped the other
C27_Witness ==
    \E p \in Workers :
        /\ Confirmed(p)
        /\ Count(req[p].aresults, "created") = 1
        /\ Count(req[p].aresults, "skipped") = 1
        /\ Count(req[p].mresults, "created") = 1
        /\ Count(req[p].mresults, "skipped") = 1
        /\ req[p].mresults[1].status = "skipped"

\* The field of the entry, null when the entry has none
FieldOrNull(entry, f) == IF f \in DOMAIN entry THEN entry[f] ELSE NULL

\* The row that the step of worker p's confirm call has just written is the
\* row of the entry the call is working on
RowOfEntry(p) ==
    LET entry == req[p].input.body.attendance[req[p].i]
    IN  \E row \in attendance' :
            /\ attendance' = attendance \cup {row}
            /\ row \notin attendance
            /\ row.source = "ocr"
            /\ row.event_id = req[p].input.event
            /\ row.table_number = FieldOrNull(entry, "table_number")
            /\ row.seat = FieldOrNull(entry, "seat")
            /\ StudentIsNamed(row.student_id, Trim(entry.student_name))

\* C28: every Attendance row that a confirm call writes has the source tag
\* of extracted data ('ocr', not 'manual' or 'online'), the table_number and
\* the seat of its entry (null where the entry has none), the event of the
\* call, and the Student whose name is the entry's trimmed name.
C28_ConfirmRowCarriesEntry ==
    [][\A p \in Workers :
         req[p].kind = "confirm" /\ attendance' # attendance => RowOfEntry(p)]_vars

\* A call has written the row of ' a' with seat S and no table number, and the
\* table also holds a row with a table number
C28_Witness ==
    \E p \in Workers :
        /\ Confirmed(p)
        /\ \E a \in attendance :
               /\ a.seat = "S" /\ a.table_number = NULL /\ a.source = "ocr"
               /\ StudentIsNamed(a.student_id, <<"a">>)
        /\ \E a \in attendance : a.table_number # NULL /\ a.seat = "N"

\* The step of worker p's confirm call answers 500
ConfirmFails(p) ==
    /\ req[p].kind = "confirm" /\ req[p].pc # "done"
    /\ req'[p].pc = "done" /\ req'[p].status = 500

\* How the call of worker p stands when the store rejects the row of entry i
StoppedAtEntry(p) ==
    LET list == req[p].input.body.attendance
        before == SubSeq(list, 1, req[p].i - 1)
    IN  /\ req[p].pc = "c_record"
        /\ req'[p].code = "INTERNAL_ERROR"
        /\ req'[p].aresults = req[p].aresults
        /\ Len(req[p].aresults) = Len(NamedInOrder(before))
        /\ \A k \in 1..Len(req[p].aresults) :
               req[p].aresults[k].status = "created" =>
                   \E a \in attendance' :
                       /\ a.event_id = req[p].input.event
                       /\ a.student_id = req[p].aresults[k].student_id
        /\ req[p].j = 0 /\ req[p].mresults = <<>>
        /\ UNCHANGED StoreVars

\* C29: when the store rejects the Attendance row of the k-th entry of a
\* confirm call, the call answers 500 INTERNAL_ERROR at that step and the step
\* changes nothing: the rows written for the entries before it stay, the
\* report it had is not extended, and the mailing-list loop has not started
\* and never does (a mailing_list row is only written by a call whose
\* attendance loop has ended).
C29_NoRollbackOnFailure ==
    [][\A p \in Workers :
         /\ ConfirmFails(p) => StoppedAtEntry(p)
         /\ req[p].kind = "confirm" /\ mailing_list' # mailing_list =>
                /\ req[p].pc = "m_add"
                /\ req[p].i > Len(req[p].input.body.attendance)
         /\ req[p].kind = "confirm" /\ req[p].pc = "done" /\ req[p].status = 500 =>
                req'[p] = req[p] \/ req'[p].status = 0]_vars

\* The second entry's seat was rejected: the call answered 500 with the first
\* entry's row written and reported created, and its signup not stored
C29_Witness ==
    \E p \in Workers :
        /\ req[p].kind = "confirm" /\ req[p].pc = "done" /\ req[p].status = 500
        /\ req[p].rejected = "CHECK"
        /\ req[p].i = 2
        /\ Len(req[p].aresults) = 1 /\ req[p].aresults[1].status = "created"
        /\ \E a \in attendance : a.student_id = req[p].aresults[1].student_id
        /\ Len(req[p].input.body.mailing_list) = 1
        /\ mailing_list = <<>>

----------------------------------------------------------------------------
(* Properties of the batch report *)

\* The report line of a record that carries no name
EmptyLine == [student_name |-> <<"(", "e", "m", "p", "t", "y", ")">>, status |-> "skipped"]

\* The lines of a report with the given status
WithStatus(results, status) ==
    LET Is(line) == line.status = status
    IN  Len(SelectSeq(results, Is))

\* Worker p is about to insert the row of a record whose (event, student)
\* pair already has a row
BatchMeetsDuplicate(p) ==
    /\ req[p].kind = "batch" /\ req[p].pc = "b_record"
    /\ \E a \in attendance :
           /\ a.event_id = req[p].input.event
           /\ a.student_id = TheStudent(req[p]).id

\* The seat and the source of the record at hand are ones the table stores
Storable(p) ==
    LET record == req[p].input.body.records[req[p].i]
    IN  /\ OrNull(record, "seat") \in Seats \cup {NULL}
        /\ SourceOf(record) \in Sources

\* The step reports the record at hand as skipped, writes nothing and goes on
SkipsAndGoesOn(p) ==
    LET record == req[p].input.body.records[req[p].i]
        line == [student_name |-> record.student_name, status |-> "skipped"]
        rest == SubSeq(req'[p].aresults, Len(req[p].aresults) + 2, Len(req'[p].aresults))
    IN  /\ req'[p].status \in {0, 201}
        /\ req'[p].i > req[p].i
        /\ Len(req'[p].aresults) > Len(req[p].aresults)
        /\ SubSeq(req'[p].aresults, 1, Len(req[p].aresults) + 1)
               = Append(req[p].aresults, line)
        /\ \A k \in 1..Len(rest) : rest[k] = EmptyLine
        /\ UNCHANGED StoreVars

\* The report of an answered batch: one line per record, in order
BatchReport(p) ==
    LET records == req[p].input.body.records
        results == req[p].aresults
    IN  /\ Len(results) = Len(records)
        /\ WithStatus(results, "created") + WithStatus(results, "skipped") = Len(records)
        /\ \A k \in 1..Len(records) :
               IF Truthy(records[k], "student_name")
               THEN results[k].student_name = records[k].student_name
               ELSE results[k] = EmptyLine

\* C30 as stated: a batch record whose (event, student) pair already has an
\* Attendance row is reported skipped and the batch goes on with the next
\* record, whatever else the record carries.
C30_DuplicateIsSkipped ==
    [][\A p \in Workers : BatchMeetsDuplicate(p) /\ req'[p] # req[p] => SkipsAndGoesOn(p)]_vars

\* C30, amended: a batch record whose pair already has an Attendance row and
\* whose seat and source the table stores is reported skipped, nothing is
\* written and the batch goes on with the next record; a batch that is
\* answered 201 reports one line per submitted record, "(empty)" skipped for
\* each record without a name, and created + skipped is the number of
\* records; a batch only ends with 500 on a record the table does not store.
C30_StorableDuplicateIsSkipped ==
    [][\A p \in Workers :
         /\ BatchMeetsDuplicate(p) /\ Storable(p) /\ req'[p] # req[p] => SkipsAndGoesOn(p)
         /\ req'[p].kind = "batch" /\ req'[p].status = 201 => BatchReport(p)'
         /\ req[p].kind = "batch" /\ req[p].pc # "done" /\ req'[p].status = 500 =>
                req[p].pc = "b_record" /\ ~Storable(p)]_vars

\* A batch of four was answered 201: the repeated name was skipped, the
\* nameless record was counted as skipped and the record after them created
C30_Witness ==
    \E p \in Workers :
        /\ req[p].kind = "batch" /\ req[p].pc = "done" /\ req[p].status = 201
        /\ req[p].rejected = "UNIQUE"
        /\ Len(req[p].aresults) = 4
        /\ req[p].aresults[2] = [student_name |-> <<"A">>, status |-> "skipped"]
        /\ req[p].aresults[3] = EmptyLine
        /\ req[p].aresults[4].status = "created"
        /\ WithStatus(req[p].aresults, "skipped") = 2

----------------------------------------------------------------------------
(* Properties of the students table under concurrent requests *)

\* C31: no two Student rows have the same name, whatever the interleaving of
\* the confirm, single attendance and batch attendance requests that
\* resolve names.
C31_StudentNamesUnique ==
    \A i, j \in 1..Len(students) : students[i].name = students[j].name => i = j

\* The request of worker p missed the name in its lookup and is about to
\* insert a Student whose name has a row by now
ResolveRaceLost(p) ==
    /\ req[p].pc = "insert_student"
    /\ GetStudentByName(req[p].name) # {}

----------------------------------------------------------------------------
(* Properties of the mailing list across its two writers *)

\* C32: no two mailing_list rows have emails that are equal after trimming
\* and lower-casing, whatever confirm calls and direct adds came before.
C32_NormalizedEmailsUnique ==
    \A i, k \in 1..Len(mailing_list) :
        Normalized(mailing_list[i].email) = Normalized(mailing_list[k].email) => i = k

\* What the table itself keeps: no two rows have the same email as stored
StoredEmailsUnique ==
    \A i, k \in 1..Len(mailing_list) :
        mailing_list[i].email = mailing_list[k].email => i = k

\* A direct add was answered 201 for an email that a stored signup already
\* has up to letter case and surrounding blanks
DirectAddOfKnownEmail ==
    \E p \in Workers :
        /\ req[p].kind = "mail_add" /\ req[p].pc = "done" /\ req[p].status = 201
        /\ \E i \in 1..Len(mailing_list) :
               /\ mailing_list[i].email # req[p].input.body.email
               /\ Normalized(mailing_list[i].email) = Normalized(req[p].input.body.email)

----------------------------------------------------------------------------
(* Properties of entries that confirm skips *)

\* The step of worker p's confirm call reports the entry at hand as skipped
ReportsSkipped(p) ==
    /\ req[p].kind = "confirm" /\ req[p].pc \in {"c_check", "c_record"}
    /\ Len(req'[p].aresults) = Len(req[p].aresults) + 1
    /\ req'[p].aresults[Len(req'[p].aresults)].status = "skipped"

\* The rows of the pair that worker p's call is looking at
RowsAtHand(p) ==
    {a \in attendance : /\ a.event_id = req[p].input.event
                        /\ a.student_id = TheStudent(req[p]).id}

\* C33: the step of a confirm call that reports an entry skipped changes no
\* table: the pair's Attendance row is there before and after with the same
\* id, table_number, seat and source, whatever the entry carries.
C33_SkippedLeavesRow ==
    [][\A p \in Workers :
         ReportsSkipped(p) =>
             /\ RowsAtHand(p) # {}
             /\ attendance' = attendance
             /\ UNCHANGED StoreVars]_vars

\* An entry was reported skipped whose seat or table number is not the one
\* of the stored row of its pair
C33_Witness ==
    \E p \in Workers :
        /\ req[p].kind = "confirm"
        /\ \E k \in 1..Len(req[p].aresults), n \in 1..Len(req[p].input.body.attendance) :
               LET line == req[p].aresults[k]
                   entry == req[p].input.body.attendance[n]
               IN  /\ line.status = "skipped"
                   /\ line.student_name = entry.student_name
                   /\ \E a \in attendance :
                          /\ a.event_id = req[p].input.event
                          /\ a.student_id = line.student_id
                          /\ \/ a.seat # OrNull(entry, "seat")
                             \/ a.table_number # OrNull(entry, "table_number")

----------------------------------------------------------------------------
(* Properties of a name that one confirm list holds more than once *)

\* Entries m and n of the list carry the same name once trimmed
SameName(list, m, n) ==
    /\ IsNamed(list[m]) /\ IsNamed(list[n])
    /\ Trim(list[m].student_name) = Trim(list[n].student_name)

\* The list holds some name more than once
HasRepeatedName(list) ==
    \E m, n \in 1..Len(list) : m < n /\ SameName(list, m, n)

\* Worker p's confirm call is working on an entry whose name an earlier
\* entry of the same list carries
AtLaterOccurrence(p) ==
    /\ req[p].kind = "confirm"
    /\ req[p].pc \in {"lookup", "insert_student", "c_check", "c_record"}
    /\ \E m \in 1..(req[p].i - 1) : SameName(req[p].input.body.attendance, m, req[p].i)

\* Worker p's confirm call is about to insert the row of the first entry that
\* carries a name which the list holds again further on
AtFirstOccurrence(p) ==
    LET list == req[p].input.body.attendance
    IN  /\ req[p].kind = "confirm" /\ req[p].pc = "c_record"
        /\ \E n \in (req[p].i + 1)..Len(list) : SameName(list, req[p].i, n)
        /\ ~\E m \in 1..(req[p].i - 1) : SameName(list, m, req[p].i)

\* The seat of the entry at hand is one the table stores
StorableSeat(p) ==
    OrNull(req[p].input.body.attendance[req[p].i], "seat") \in Seats \cup {NULL}

\* The last line of the report after the step
LastLine(p) == req'[p].aresults[Len(req'[p].aresults)]

\* The step of a later occurrence: nothing is written, the call does not
\* end in an error, and the line it reports is skipped
LaterOccurrenceSkipped(p) ==
    /\ UNCHANGED StoreVars
    /\ req'[p].status \in {0, 200}
    /\ req[p].pc \in {"lookup", "c_check"}
    /\ req[p].pc = "c_check" =>
           /\ Len(req'[p].aresults) = Len(req[p].aresults) + 1
           /\ LastLine(p).status = "skipped"
           /\ LastLine(p).student_id = TheStudent(req[p]).id

\* The step that inserts the row of a first occurrence reports created
FirstOccurrenceCreated(p) ==
    /\ req'[p].status \in {0, 200}
    /\ Len(req'[p].aresults) = Len(req[p].aresults) + 1
    /\ LastLine(p).status = "created"
    /\ Cardinality(attendance') = Cardinality(attendance) + 1

\* What an answered call with a repeated name has left: one Student of that
\* name and one Attendance row of the pair
OneStudentOneRow(p) ==
    LET list == req[p].input.body.attendance
    IN  \A n \in 1..Len(list) :
            (\E m \in 1..(n - 1) : SameName(list, m, n)) =>
                LET named == {k \in 1..Len(students) :
                                 students[k].name = Trim(list[n].student_name)}
                IN  /\ Cardinality(named) = 1
                    /\ \A k \in named :
                           Cardinality({a \in attendance :
                                           /\ a.event_id = req[p].input.event
                                           /\ a.student_id = students[k].id}) = 1

\* C34 as stated: a confirm call on an existing event whose list holds the
\* same trimmed name more than once does not error, whatever its entries
\* carry.
C34_RepeatedNameNeverErrors ==
    \A p \in Workers :
        /\ req[p].kind = "confirm" /\ req[p].pc = "done"
        /\ EventExists(req[p].input.event)
        /\ HasRepeatedName(req[p].input.body.attendance)
        => req[p].status = 200

\* C34, amended: in a confirm list that holds the same trimmed name more than
\* once, every later occurrence is reported skipped, writes nothing and never
\* ends the call in an error, whatever seat it carries; the first occurrence
\* is reported created when its row is inserted, which needs a seat the
\* table stores (otherwise the call ends with 500 at that entry); and a call
\* that is answered 200 leaves exactly one Student of that name and exactly
\* one Attendance row of the pair.
C34_RepeatedNameOneRow ==
    [][\A p \in Workers :
         /\ AtLaterOccurrence(p) /\ req'[p] # req[p] => LaterOccurrenceSkipped(p)
         /\ AtFirstOccurrence(p) /\ req'[p] # req[p] =>
                IF StorableSeat(p) THEN FirstOccurrenceCreated(p)
                ELSE req'[p].status = 500 /\ UNCHANGED StoreVars
         /\ Confirmed(p)' /\ HasRepeatedName(req'[p].input.body.attendance) =>
                OneStudentOneRow(p)']_vars

\* A call with the name A twice, the second time with blanks around it and
\* another seat, was answered 200 with created then skipped
C34_Witness ==
    \E p \in Workers :
        /\ Confirmed(p)
        /\ Len(req[p].input.body.attendance) = 2
        /\ HasRepeatedName(req[p].input.body.attendance)
        /\ req[p].input.body.attendance[1].student_name
               # req[p].input.body.attendance[2].student_name
        /\ Len(req[p].aresults) = 2
        /\ req[p].aresults[1].status = "created"
        /\ req[p].aresults[2].status = "skipped"
        /\ req[p].aresults[1].student_id = req[p].aresults[2].student_id

----------------------------------------------------------------------------
(* Properties of the jobs of plain uploads *)

\* The upload of worker p stores a sheet and is about to insert its job
UploadInsertsJob(p) ==
    /\ req[p].kind = "photo" /\ req[p].pc = "p_insert"
    /\ req[p].input.type = "attendance-sheet"

\* The job that the step has appended
NewJob == ocr_jobs'[Len(ocr_jobs')]

\* Worker p is a scan holding job i, at one of the three updates
ScanUpdates(p, i) ==
    /\ req[p].kind = "scan" /\ req[p].job = i
    /\ req[p].pc \in {"s_processing", "s_complete", "s_failed"}

\* The step gives worker p's scan its job: the one it inserts itself
ScanTakesJob(p) ==
    /\ req[p].kind = "scan" /\ req[p].pc # "done"
    /\ req'[p].job # req[p].job

\* The upload of worker p has been answered for a sheet
UploadAnswered(p) ==
    req[p].kind = "photo" /\ req[p].pc = "done" /\ req[p].job # 0

\* C35: the job that a plain upload of an attendance sheet inserts is pending
\* with no result and no error; a job is only ever changed by the scan that
\* inserted it, so no step changes the job of an upload, and it is pending
\* with no result and no error for as long as the upload's answer is held.
C35_UploadedJobStaysPending ==
    [][/\ \A p \in Workers :
              /\ UploadInsertsJob(p) /\ req'[p] # req[p] =>
                     /\ Len(ocr_jobs') = Len(ocr_jobs) + 1
                     /\ NewJob.status = "pending"
                     /\ NewJob.result_json = NULL /\ NewJob.error_message = NULL
                     /\ req'[p].job = NewJob.id
              /\ ScanTakesJob(p) =>
                     /\ req[p].pc = "s_insert" /\ req[p].job = 0
                     /\ Len(ocr_jobs') = Len(ocr_jobs) + 1
                     /\ req'[p].job = NewJob.id
              /\ UploadAnswered(p) /\ req'[p] = req[p] =>
                     ocr_jobs'[req[p].job] = ocr_jobs[req[p].job]
              /\ UploadAnswered(p)' =>
                     /\ ocr_jobs'[req'[p].job].status = "pending"
                     /\ ocr_jobs'[req'[p].job].result_json = NULL
                     /\ ocr_jobs'[req'[p].job].error_message = NULL
       /\ \A i \in 1..Len(ocr_jobs) :
              ocr_jobs'[i] # ocr_jobs[i] => \E p \in Workers : ScanUpdates(p, i)]_vars

\* The job of an answered upload is still pending after a scan that came
\* later has run to its end
C35_Witness ==
    \E p, q \in Workers :
        /\ UploadAnswered(p) /\ req[p].job = 1
        /\ ocr_jobs[1].status = "pending"
        /\ ScanAnswered(q) /\ req[q].job = 2
        /\ ocr_jobs[2].status \in {"complete", "failed"}

----------------------------------------------------------------------------
(* Properties of DELETE /api/events/:id/attendance/:studentId *)

\* The rows of the pair that worker p's deletion names
RowsNamed(p) ==
    {a \in attendance : /\ a.event_id = req[p].input.event
                        /\ a.student_id = req[p].input.student_id}

\* The step of a deletion: the one row of the pair goes and nothing else, or
\* there is no such row, the answer is 404 and nothing changes
DeletesOneRow(p) ==
    IF RowsNamed(p) # {}
    THEN /\ Cardinality(RowsNamed(p)) = 1
         /\ attendance' = attendance \ RowsNamed(p)
         /\ UNCHANGED <<events, members, students, mailing_list, ocr_jobs, blobs>>
         /\ req'[p].status = 204
    ELSE /\ UNCHANGED StoreVars
         /\ req'[p].status = 404 /\ req'[p].code = "NOT_FOUND"

\* The steps of a confirm call for a name that has a Student: the lookup
\* returns that Student and inserts none, and when the pair has no row the
\* entry goes to the insert, which reports it created under that Student
ReusesStudent(p) ==
    LET known == GetStudentByName(req[p].name)
    IN  /\ req[p].pc = "lookup" /\ known # {} =>
               /\ req'[p].student = known
               /\ students' = students
        /\ req[p].pc = "c_check" /\ RowsAtHand(p) = {} =>
               /\ req'[p].pc = "c_record"
               /\ req'[p].student = req[p].student
        /\ req[p].pc = "c_record" /\ StorableSeat(p) =>
               /\ Len(req'[p].aresults) = Len(req[p].aresults) + 1
               /\ LastLine(p).status = "created"
               /\ LastLine(p).student_id = TheStudent(req[p]).id
               /\ \E a \in attendance' \ attendance :
                      /\ a.event_id = req[p].input.event
                      /\ a.student_id = TheStudent(req[p]).id
               /\ students' = students

\* C36: a deletion removes the one Attendance row of its (event, student)
\* pair and changes nothing else, or answers 404 and changes nothing when the
\* pair has no row; no step removes a Student; and a confirm call for a name
\* whose Student exists and whose pair has no row, as a deletion leaves it,
\* reports the entry created under that same Student.
C36_DeleteRemovesOneRow ==
    [][/\ Len(students') >= Len(students)
       /\ SubSeq(students', 1, Len(students)) = students
       /\ \A p \in Workers :
              /\ req[p].kind = "delete" /\ req[p].pc = "d_delete" /\ req'[p] # req[p] =>
                     DeletesOneRow(p)
              /\ req[p].kind = "confirm" /\ req'[p] # req[p] => ReusesStudent(p)]_vars

\* A was confirmed for E1, the record was deleted, and A was confirmed for E1
\* again: one Student, one row, the second of the two rows ever written
C36_Witness ==
    \E p \in Workers :
        /\ Confirmed(p) /\ req[p].input.event = "E1"
        /\ Len(req[p].aresults) = 1
        /\ req[p].aresults[1].status = "created"
        /\ req[p].aresults[1].student_id = 1
        /\ Len(students) = 1
        /\ attSeq = 2
        /\ attendance = {a \in attendance : a.id = 2 /\ a.student_id = 1}
        /\ attendance # {}

\* A deletion was answered 404 with a row of another pair in the table
C36_NotFoundWitness ==
    \E p \in Workers :
        /\ req[p].kind = "delete" /\ req[p].pc = "done" /\ req[p].status = 404
        /\ attendance # {}

----------------------------------------------------------------------------
(* Properties of the normalizer applied to its own result *)

\* The second call of worker p has returned
Revalidated(p) == req[p].kind = "revalidate" /\ req[p].pc = "done"

\* C37: validateOcrResult applied to a result it returned does not throw and
\* returns an equal result: the same entries and signups in the same order,
\* the same seats, names, emails and defaults.
C37_NormalizerIdempotent ==
    \A p \in Workers :
        Revalidated(p) => ~req[p].out.threw /\ req[p].out.result = req[p].first

\* A reply that the first call changed (a name trimmed, a seat word turned
\* into its letter, a signup's email lower-cased) came back equal from the second
C37_Witness ==
    \E p \in Workers :
        /\ Revalidated(p)
        /\ req[p].out.result = req[p].first
        /\ Len(req[p].first.attendance) = 2
        /\ req[p].first.attendance[1].name = <<"A">>
        /\ req[p].first.attendance[1].seat = "W"
        /\ req[p].first.attendance[2].seat = NULL
        /\ Len(req[p].first.mailing_list) = 1
        /\ req[p].first.mailing_list[1].email = <<"x">>
        /\ req[p].first.form_type = "blank"

----------------------------------------------------------------------------
(* Properties of the checks of a scan *)

\* The scan has no vision API key, no photo file, a file of a type outside
\* ALLOWED_TYPES, or a file over MAX_SIZE
FailsScanChecks(in) ==
    \/ ~in.api_key
    \/ in.photo = {}
    \/ \E f \in in.photo : f.type \notin ALLOWED_TYPES
    \/ \E f \in in.photo : f.size > MAX_SIZE

\* The step is one of worker p's scan
ScanSteps(p) == req[p].kind = "scan" /\ req[p].pc # "done" /\ req'[p] # req[p]

\* C38: a scan that fails one of the checks is answered in its first step,
\* 400 BAD_REQUEST when its event exists, and that step changes no table and
\* no blob; every step of a scan that writes a blob or inserts a job belongs
\* to a scan that passed all the checks and names an existing event, and the
\* blob is written before the job is inserted; a scan answered 400 holds no
\* blob key and no job.
C38_RejectedScanStoresNothing ==
    [][\A p \in Workers :
         /\ ScanSteps(p) /\ FailsScanChecks(req[p].input) =>
                /\ req[p].pc = "s_event"
                /\ req'[p].pc = "done"
                /\ EventExists(req[p].input.event) =>
                       req'[p].status = 400 /\ req'[p].code = "BAD_REQUEST"
                /\ req'[p].key = <<>> /\ req'[p].job = 0
                /\ UNCHANGED StoreVars
         /\ ScanSteps(p) /\ (blobs' # blobs \/ Len(ocr_jobs') # Len(ocr_jobs)) =>
                /\ ~FailsScanChecks(req[p].input)
                /\ EventExists(req[p].input.event)
                /\ blobs' # blobs => req[p].pc = "s_put" /\ ocr_jobs' = ocr_jobs
                /\ Len(ocr_jobs') # Len(ocr_jobs) =>
                       req[p].pc = "s_insert" /\ req[p].key \in blobs]_vars

\* A scan with an image over the size limit was answered 400 after another
\* scan had stored its blob and its job
C38_Witness ==
    \E p \in Workers :
        /\ req[p].kind = "scan" /\ req[p].pc = "done" /\ req[p].status = 400
        /\ req[p].input.api_key
        /\ \E f \in req[p].input.photo : f.type \in ALLOWED_TYPES /\ f.size > MAX_SIZE
        /\ req[p].key = <<>> /\ req[p].job = 0
        /\ Cardinality(blobs) = 1 /\ Len(ocr_jobs) = 1

============================================================================
